---- MODULE Spec2Model ----
(***************************************************************************)
(* A model of libsafet's value-storage kernel (safet::optional,           *)
(* safet::variant) and of its lazy range adaptors (safet::range).         *)
(*                                                                         *)
(* The module holds several components, each with its own specification:  *)
(*   SpecOption   safet::optional<T>, T a value type or a reference type  *)
(*   SpecVariant  safet::variant<Ts...> over std::variant                 *)
(*   SpecJoin     a loop over range(a).join(range(b)), same iterator type  *)
(*   SpecMap      mapped_iterator objects over range(c).map(f)             *)
(* Every specification leaves the other components at rest.                *)
(***************************************************************************)
EXTENDS Integers, Sequences, FiniteSets, TLC

(***************************************************************************)
(* Bounds of the model.                                                    *)
(***************************************************************************)
\* objects of the held type that may be constructed in Option slots in one run
MaxObjs == 2
\* alternative objects that may be constructed in Variants in one run
MaxVObjs == 2
\* longest container a range is taken over
MaxLen == 2
\* dereferences of one mapped iterator at one position
MaxDerefs == 2
\* nesting levels of the deepest optional<optional<...<int>...>> that is collapsed
MaxDepth == 9
\* calls of enter or try_enter that one thread makes
MaxEnters == 2
\* payloads that strong_ptr objects may allocate in one run
MaxPayloads == 2

\* values of the held type T (and of the external variables a T& refers to)
Vals == {1, 2}
\* the two Option objects of the instantiation under test
OptIds == {"a", "b"}
\* addresses of the caller's variables x and y that an optional<T&> may refer to
Addrs == {"x", "y"}

VARIABLES
    is_reference,   \* optional<T>::is_reference: T is a reference type (fixed per instantiation)
    opt,            \* OptIds -> [alive, m_engaged, m_buffer]
    objs,           \* the T objects ever constructed in a slot: <<[val, dtors]>>, id = index
    ub,             \* a destructor or a read was applied to storage holding no live object
    ext,            \* Addrs -> value of the caller's variable at that address
    last,           \* the Option operation that produced this state
    alts,           \* the alternative types Ts... of the variant instantiation
    vnt,            \* VarIds -> [alive, index, val, obj]: m_variant of each Variant
    vobjs,          \* the alternative objects ever constructed: <<dtors>>, id = index
    vlast,          \* the Variant operation that produced this state
    jin,            \* the containers a and b that range(a).join(range(b)) runs over
    jn,             \* the loop over the joined range: its iterators and what it yielded
    mseq,           \* the container that range(c).map(f) runs over
    mp,             \* MapIds -> a mapped_iterator and the caller's counters for it
    cmp,            \* the operands of an Option comparison and the results obtained
    pin,            \* range(c).filter(pred).map(f) and its terminal operation: the inputs
    pl,             \* the pipeline's iterators, the terminal's loop and the functors' call counts
    col,            \* a nested Option, its nesting depth, and what collapse() returned
    cs,             \* the critical_section: who holds m_mutex, and m_value
    thr,            \* each thread's position in its enter or try_enter call
    cv,             \* the condition_variable (m_mutex, the threads blocked in m_cv) and external_condition
    cvt,            \* each thread's position in the notify and wait handshake
    base,           \* the caller's values that a cow may reference, by address
    cows,           \* CowIds -> [alive, index, val, ref]: m_value of each cow
    obs,            \* the caller's last cow operation and the address and value it gave
    fin,            \* the finally objects of one scope, call_count, and the return statement taken
    itin,           \* the adaptor a caller's iterators belong to: its kind, its vectors and its value cache
    its,            \* the caller's iterators it and copy, and the predicate's invocation counts
    sp,             \* the strong_ptr objects and the Implementation objects they allocated
    mcv,            \* the condition_variable that wait and modify share
    mth             \* the position of each waiting or modifying thread

optVars == <<is_reference, opt, objs, ub, last>>
varVars == <<alts, vnt, vobjs, vlast>>
joinVars == <<jin, jn>>
mapVars == <<mseq, mp>>
kernelVars == <<optVars, ext, varVars, joinVars, mapVars>>
\* the variables of the components that follow the kernel and the adaptors
laterVars == <<cmp, pin, pl, col, cs, thr, cv, cvt, base, cows, obs, fin, itin, its, sp, mcv, mth>>
\* what each later component leaves alone
notCmp == <<kernelVars, pin, pl, col, cs, thr, cv, cvt, base, cows, obs, fin, itin, its, sp, mcv, mth>>
notPipe == <<kernelVars, cmp, col, cs, thr, cv, cvt, base, cows, obs, fin, itin, its, sp, mcv, mth>>
notCol == <<kernelVars, cmp, pin, pl, cs, thr, cv, cvt, base, cows, obs, fin, itin, its, sp, mcv, mth>>
notCs == <<kernelVars, cmp, pin, pl, col, cv, cvt, base, cows, obs, fin, itin, its, sp, mcv, mth>>
notCv == <<kernelVars, cmp, pin, pl, col, cs, thr, base, cows, obs, fin, itin, its, sp, mcv, mth>>
notCow == <<kernelVars, cmp, pin, pl, col, cs, thr, cv, cvt, fin, itin, its, sp, mcv, mth>>
notFin == <<kernelVars, cmp, pin, pl, col, cs, thr, cv, cvt, base, cows, obs, itin, its, sp, mcv, mth>>
notIter == <<kernelVars, cmp, pin, pl, col, cs, thr, cv, cvt, base, cows, obs, fin, sp, mcv, mth>>
notStrong == <<kernelVars, cmp, pin, pl, col, cs, thr, cv, cvt, base, cows, obs, fin, itin, its, mcv, mth>>
notModify == <<kernelVars, cmp, pin, pl, col, cs, thr, cv, cvt, base, cows, obs, fin, itin, its, sp>>
vars == <<is_reference, opt, objs, ub, ext, last, alts, vnt, vobjs, vlast, jin, jn, mseq, mp, cmp, pin, pl, col, cs, thr, cv, cvt, base, cows, obs, fin, itin, its, sp, mcv, mth>>

\* an Option object that does not exist (before its constructor, after its destructor)
Dead == [alive |-> FALSE, m_engaged |-> FALSE, m_buffer |-> 0]

\* last: the operation, the Option it acted on, its source Option and argument,
\* whether T's constructor threw in it, what the Option held before it, and for
\* if_set(f).if_unset(g) which functors ran and which Option the chain returned
NoOp == [op |-> "init", o |-> "a", src |-> "a", arg |-> 0, threw |-> FALSE,
         was_engaged |-> FALSE, was_buffer |-> 0,
         f_called |-> FALSE, g_called |-> FALSE, ret |-> "a"]

\* the part of the state the kernel's member functions work on
Heap == [opt |-> opt, objs |-> objs, ub |-> ub, ext |-> ext]

\* the T object with this id is constructed and not yet destroyed
Live(os, id) == id \in 1..Len(os) /\ os[id].dtors = 0

(***************************************************************************)
(* optional<T>: the private helpers                                        *)
(***************************************************************************)
\* std::destroy_at(&value()): run ~T on the slot; what it leaves in the storage is
\* indeterminate (0). On storage that holds no live object the destructor still
\* runs (counted on the object whose remains are there) and the behaviour is
\* undefined.
destroy_at(h, id) ==
    IF id \in 1..Len(h.objs)
    THEN [h EXCEPT !.objs[id] = [val |-> 0, dtors |-> IF @.dtors < 2 THEN @.dtors + 1 ELSE 2],
                   !.ub = @ \/ h.objs[id].dtors > 0]
    ELSE [h EXCEPT !.ub = TRUE]

\* optional::destroy
destroy(h, o) ==
    IF h.opt[o].m_engaged
    THEN LET h1 == IF ~is_reference THEN destroy_at(h, h.opt[o].m_buffer) ELSE h
         IN  [h1 EXCEPT !.opt[o].m_engaged = FALSE]
    ELSE h

\* construct as a forwarding assignment would have it: an engaged optional<T&>
\* stores the new referent's value through the old reference and stays bound
construct_assign_through(h, o, arg, throws) ==
    IF is_reference /\ h.opt[o].m_engaged
    THEN [h EXCEPT !.ext[h.opt[o].m_buffer] = h.ext[arg]]
    ELSE LET h2 == [h EXCEPT !.opt[o].m_engaged = TRUE]
         IN  IF is_reference
             THEN [h2 EXCEPT !.opt[o].m_buffer = arg]
             ELSE IF throws
                  THEN h2
                  ELSE [h2 EXCEPT !.objs = Append(@, [val |-> arg, dtors |-> 0]),
                                  !.opt[o].m_buffer = Len(h2.objs) + 1]

\* optional::construct(args...): arg is the value to construct T from, or, for a
\* reference T, the address of the referent; throws: T's constructor throws.
construct(h, o, arg, throws) ==
    LET h1 == IF h.opt[o].m_engaged THEN destroy(h, o) ELSE h
        h2 == [h1 EXCEPT !.opt[o].m_engaged = TRUE]
    IN  IF is_reference
        THEN [h2 EXCEPT !.opt[o].m_buffer = arg]
        ELSE IF throws
             THEN h2
             ELSE [h2 EXCEPT !.objs = Append(@, [val |-> arg, dtors |-> 0]),
                             !.opt[o].m_buffer = Len(h2.objs) + 1]

\* optional::value(): what the slot designates: the held T (its value; 0 is the
\* indeterminate content of storage never constructed), or the referent's address
value(h, o) ==
    IF is_reference
    THEN h.opt[o].m_buffer
    ELSE IF h.opt[o].m_buffer \in 1..Len(h.objs) THEN h.objs[h.opt[o].m_buffer].val ELSE 0

\* a use of value(): undefined when the slot of a value Option holds no live T
touch(h, o) ==
    IF ~is_reference /\ ~Live(h.objs, h.opt[o].m_buffer) THEN [h EXCEPT !.ub = TRUE] ELSE h

\* the value read through value(): the held T, or the referent's current value
read(h, o) == IF is_reference THEN h.ext[h.opt[o].m_buffer] ELSE value(h, o)

\* the address of the object value() designates: the Option's own buffer, or the referent
address(h, o) == IF is_reference THEN h.opt[o].m_buffer ELSE <<"m_buffer", o>>

\* optional::empty
empty(h, o) == ~h.opt[o].m_engaged

\* the arguments a caller can pass where a T is expected
Args == IF is_reference THEN Addrs ELSE Vals
\* a T constructor can throw only when T is a value type
Throws == IF is_reference THEN {FALSE} ELSE BOOLEAN
\* room for one more T object in this run
Room(throws) == is_reference \/ throws \/ Len(objs) < MaxObjs

\* a run ends at undefined behaviour: nothing is known of the program after it
Commit(h, l) ==
    /\ ~ub
    /\ opt' = h.opt
    /\ objs' = h.objs
    /\ ub' = h.ub
    /\ ext' = h.ext
    /\ last' = l
    /\ UNCHANGED <<is_reference, varVars, joinVars, mapVars, laterVars>>

Op(name, o, src, arg, threw) ==
    [NoOp EXCEPT !.op = name, !.o = o, !.src = src, !.arg = arg, !.threw = threw,
                 !.was_engaged = opt[o].m_engaged, !.was_buffer = opt[o].m_buffer,
                 !.ret = o]

(***************************************************************************)
(* optional<T>: constructors and destructor                                *)
(***************************************************************************)
\* optional() / optional(std::nullopt_t)
DefaultCtor(o) ==
    /\ ~opt[o].alive
    /\ Commit([Heap EXCEPT !.opt[o] = [Dead EXCEPT !.alive = TRUE]],
              Op("ctor", o, o, 0, FALSE))

\* optional(T value): a constructor that throws leaves no Option behind
ValueCtor(o, arg, throws) ==
    /\ ~opt[o].alive
    /\ Room(throws)
    /\ LET h0 == [Heap EXCEPT !.opt[o] = [Dead EXCEPT !.alive = TRUE]]
           h1 == construct(h0, o, arg, throws)
       IN  Commit(IF throws THEN Heap ELSE h1, Op("value_ctor", o, o, arg, throws))

\* a copy constructor that takes the value out of its source
CopyCtor_steals(o, src, throws) ==
    /\ ~opt[o].alive /\ opt[src].alive /\ o # src
    /\ ~throws
    /\ Commit([Heap EXCEPT !.opt[o] = [opt[src] EXCEPT !.alive = TRUE],
                           !.opt[src].m_engaged = FALSE],
              [Op("copy_ctor", o, src, 0, FALSE) EXCEPT !.was_engaged = opt[src].m_engaged])

\* optional(const optional& copy)
CopyCtor(o, src, throws) ==
    /\ ~opt[o].alive /\ opt[src].alive /\ o # src
    /\ Room(throws \/ ~opt[src].m_engaged)
    /\ LET h0 == [Heap EXCEPT !.opt[o] = [Dead EXCEPT !.alive = TRUE]]
           h1 == IF h0.opt[src].m_engaged
                 THEN construct(touch(h0, src), o, value(h0, src), throws)
                 ELSE h0
           threw == throws /\ opt[src].m_engaged
       IN  Commit(IF threw THEN Heap ELSE h1,
                  [Op("copy_ctor", o, src, 0, threw) EXCEPT !.was_engaged = opt[src].m_engaged])

\* optional(optional&& move): the source keeps its (moved-from) object
MoveCtor(o, src, throws) ==
    /\ ~opt[o].alive /\ opt[src].alive /\ o # src
    /\ Room(throws \/ ~opt[src].m_engaged)
    /\ LET h0 == [Heap EXCEPT !.opt[o] = [Dead EXCEPT !.alive = TRUE]]
           h1 == IF h0.opt[src].m_engaged
                 THEN construct(touch(h0, src), o, value(h0, src), throws)
                 ELSE h0
           threw == throws /\ opt[src].m_engaged
       IN  Commit(IF threw THEN Heap ELSE h1,
                  [Op("move_ctor", o, src, 0, threw) EXCEPT !.was_engaged = opt[src].m_engaged])

\* ~optional()
Dtor(o) ==
    /\ opt[o].alive
    /\ LET h1 == destroy(Heap, o)
       IN  Commit([h1 EXCEPT !.opt[o] = Dead], Op("dtor", o, o, 0, FALSE))

(***************************************************************************)
(* optional<T>: assignment and emplace                                     *)
(***************************************************************************)
\* operator=(const optional& copy)
CopyAssign(o, src, throws) ==
    /\ opt[o].alive /\ opt[src].alive
    /\ Room(throws \/ o = src \/ ~opt[src].m_engaged)
    /\ LET h1 == IF src # o
                 THEN IF opt[src].m_engaged
                      THEN construct(touch(Heap, src), o, value(Heap, src), throws)
                      ELSE destroy(Heap, o)
                 ELSE Heap
       IN  Commit(h1, Op("copy_assign", o, src, 0, throws /\ src # o /\ opt[src].m_engaged))

\* operator=(optional&& move)
MoveAssign(o, src, throws) ==
    /\ opt[o].alive /\ opt[src].alive
    /\ Room(throws \/ o = src \/ ~opt[src].m_engaged)
    /\ LET h1 == IF src # o
                 THEN IF opt[src].m_engaged
                      THEN construct(touch(Heap, src), o, value(Heap, src), throws)
                      ELSE destroy(Heap, o)
                 ELSE Heap
       IN  Commit(h1, Op("move_assign", o, src, 0, throws /\ src # o /\ opt[src].m_engaged))

\* operator=(T new_value)
AssignValue(o, arg, throws) ==
    /\ opt[o].alive
    /\ Room(throws)
    /\ Commit(construct(Heap, o, arg, throws), Op("assign_value", o, o, arg, throws))

\* operator=(std::nullopt_t)
AssignNullopt(o) ==
    /\ opt[o].alive
    /\ Commit(destroy(Heap, o), Op("assign_nullopt", o, o, 0, FALSE))

\* emplace(args...)
Emplace(o, arg, throws) ==
    /\ opt[o].alive
    /\ Room(throws)
    /\ Commit(construct(Heap, o, arg, throws), Op("emplace", o, o, arg, throws))

(***************************************************************************)
(* optional<T>: if_set / if_unset with functors that return nothing        *)
(***************************************************************************)
\* a store of w through the T& that value() returns
write(h, o, w) ==
    IF is_reference
    THEN [h EXCEPT !.ext[h.opt[o].m_buffer] = w]
    ELSE IF h.opt[o].m_buffer \in 1..Len(h.objs)
         THEN [h EXCEPT !.objs[h.opt[o].m_buffer].val = w]
         ELSE h

\* if_set(f) &: f takes the held value by T& and stores w through it; the
\* result is the heap, whether f ran, what f was given, and the Option returned
if_set(h, o, w) ==
    IF h.opt[o].m_engaged
    THEN [h |-> write(touch(h, o), o, w), called |-> TRUE, given |-> read(h, o), ret |-> o]
    ELSE [h |-> h, called |-> FALSE, given |-> 0, ret |-> o]

\* if_unset with its test inverted
if_unset_inverted(h, o) ==
    [h |-> h, called |-> h.opt[o].m_engaged, ret |-> o]

\* if_unset(g) &
if_unset(h, o) ==
    [h |-> h, called |-> ~h.opt[o].m_engaged, ret |-> o]

\* a.if_set(f).if_unset(g)
IfSetIfUnset(o, w) ==
    /\ opt[o].alive
    /\ LET r1 == if_set(Heap, o, w)
           r2 == if_unset(r1.h, r1.ret)
       IN  Commit(r2.h, [Op("chain", o, o, r1.given, FALSE) EXCEPT
                            !.f_called = r1.called, !.g_called = r2.called, !.ret = r2.ret])

(***************************************************************************)
(* The caller's own variables                                              *)
(***************************************************************************)
\* the caller writes one of its variables directly (x = v)
ExtWrite(x, v) ==
    /\ is_reference
    /\ ext[x] # v
    /\ Commit([Heap EXCEPT !.ext[x] = v], Op("ext_write", "a", "a", x, FALSE))

\* no Option exists yet; the instantiation is given by is_reference
InitOption ==
    /\ is_reference \in BOOLEAN
    /\ opt = [o \in OptIds |-> Dead]
    /\ objs = << >>
    /\ ub = FALSE
    /\ last = NoOp

\* the Option component at rest, for the specifications of the other components
IdleOption ==
    /\ is_reference = FALSE
    /\ opt = [o \in OptIds |-> Dead]
    /\ objs = << >>
    /\ ub = FALSE
    /\ last = NoOp

\* the caller's variables
InitExt == ext = [x \in Addrs |-> 1]

NextOption ==
    \/ \E o \in OptIds : DefaultCtor(o)
    \/ \E o \in OptIds, arg \in Args, t \in Throws : ValueCtor(o, arg, t)
    \/ \E o \in OptIds, src \in OptIds, t \in Throws : CopyCtor(o, src, t)
    \/ \E o \in OptIds, src \in OptIds, t \in Throws : MoveCtor(o, src, t)
    \/ \E o \in OptIds : Dtor(o)
    \/ \E o \in OptIds, src \in OptIds, t \in Throws : CopyAssign(o, src, t)
    \/ \E o \in OptIds, src \in OptIds, t \in Throws : MoveAssign(o, src, t)
    \/ \E o \in OptIds, arg \in Args, t \in Throws : AssignValue(o, arg, t)
    \/ \E o \in OptIds : AssignNullopt(o)
    \/ \E o \in OptIds, arg \in Args, t \in Throws : Emplace(o, arg, t)
    \/ \E o \in OptIds, w \in Vals : IfSetIfUnset(o, w)
    \/ \E x \in Addrs, v \in Vals : ExtWrite(x, v)


(***************************************************************************)
(* Claims about safet::optional                                            *)
(***************************************************************************)
\* the Options that exist
AliveOpts == {o \in OptIds : opt[o].alive}
\* the Options that hold the T object id in their slot
Holders(id) == {o \in AliveOpts : opt[o].m_engaged /\ opt[o].m_buffer = id}

\* C1: for an Option of a value type, every T constructed in a slot is destroyed
\* exactly once: never twice, never left alive without an engaged Option holding
\* it, and a slot holds a live T if and only if its Option is engaged.
C1_DestroyedExactlyOnce ==
    ~is_reference =>
        /\ \A id \in 1..Len(objs) : objs[id].dtors <= 1
        /\ \A id \in 1..Len(objs) : Live(objs, id) => Cardinality(Holders(id)) = 1
        /\ \A o \in AliveOpts : opt[o].m_engaged <=> Live(objs, opt[o].m_buffer)

\* C5: assigning a referent y to an engaged optional<T&> that refers to x rebinds
\* it: afterwards it refers to y, no caller variable has changed, and a later
\* store through the Option changes its referent only.
C5_AssignRebinds ==
    [][ /\ (is_reference /\ last'.op = "assign_value" /\ opt[last'.o].m_engaged)
            => /\ opt'[last'.o].m_engaged
               /\ opt'[last'.o].m_buffer = last'.arg
               /\ ext' = ext
        /\ (is_reference /\ last'.op = "chain" /\ last'.f_called)
            => \A x \in Addrs \ {opt[last'.o].m_buffer} : ext'[x] = ext[x]
      ]_vars

\* an engaged optional<T&> was assigned a referent other than the one it had
C5_Witness ==
    /\ is_reference /\ last.op = "assign_value"
    /\ last.was_engaged /\ last.was_buffer # last.arg
    /\ opt[last.o].m_buffer = last.arg

\* C6: when T's constructor throws in construct (emplace, assignment), the Option
\* is left un-engaged, whether or not it held a value before.
C6_ThrowLeavesUnengaged ==
    (last.threw /\ opt[last.o].alive) => ~opt[last.o].m_engaged

\* C8: a.if_set(f).if_unset(g) calls f with the held value when a is engaged and
\* g when a is empty, exactly one of the two, and returns a itself.
C8_ExactlyOneBranch ==
    [][ last'.op = "chain"
        => /\ last'.f_called <=> opt[last'.o].m_engaged
           /\ last'.g_called <=> ~opt[last'.o].m_engaged
           /\ last'.f_called # last'.g_called
           /\ last'.f_called => last'.arg = read(Heap, last'.o)
           /\ last'.ret = last'.o
      ]_vars

\* the chain ran on an engaged Option and called f alone
C8_Witness == last.op = "chain" /\ last.was_engaged /\ last.f_called /\ ~last.g_called

\* the chain ran on an empty Option and called g alone
C8_WitnessEmpty == last.op = "chain" /\ ~last.was_engaged /\ last.g_called /\ ~last.f_called

\* C9: copying an engaged Option gives a new engaged Option with an equal value,
\* at another address for a value T and at the same address for a reference T,
\* and leaves the source as it was; copying an empty Option gives an empty one.
C9_CopyYieldsEqual ==
    [][ (last'.op = "copy_ctor" /\ ~last'.threw)
        => LET o == last'.o
               src == last'.src
               h == [opt |-> opt', objs |-> objs', ub |-> ub', ext |-> ext']
           IN  /\ opt'[o].alive
               /\ opt'[src] = opt[src]
               /\ opt'[o].m_engaged <=> opt[src].m_engaged
               /\ opt[src].m_engaged
                  => /\ read(h, o) = read(Heap, src)
                     /\ read(h, src) = read(Heap, src)
                     /\ is_reference => address(h, o) = address(Heap, src)
                     /\ ~is_reference => address(h, o) # address(Heap, src)
      ]_vars

\* an engaged Option holding a live value was copied
C9_Witness ==
    /\ last.op = "copy_ctor" /\ ~last.threw /\ last.was_engaged
    /\ opt[last.o].m_engaged /\ opt[last.src].m_engaged
    /\ (is_reference \/ Live(objs, opt[last.src].m_buffer))

(***************************************************************************)
(* safet::variant<Ts...>                                                   *)
(*                                                                         *)
(* m_variant is a std::variant<storage_type<Ts>...>: an index, the active  *)
(* alternative's value (for a reference alternative the wrapped address)   *)
(* and, to follow lifetimes, the identity of the active alternative object.*)
(* Alternative types are named by strings; the values of int and of        *)
(* std::string are drawn from Vals, 0 being the value-initialised T{}.     *)
(* The alternatives' constructors are taken not to throw.                  *)
(***************************************************************************)
\* the instantiations under test: the type list of the comparison tests (its
\* int* left out), and one where int is unique beside int&
TypeLists == { <<"int", "string", "int", "int&", "const int&">>,
               <<"int", "string", "int&">> }
\* the two Variant objects
VarIds == {"a", "b"}

\* impl::reference / impl::value
is_ref(T) == T \in {"int&", "const int&"}
\* the indices I of the instantiation, as C++ counts them
Indices == 0..(Len(alts) - 1)
\* pack<Args...>::ith_type<I>
ith_type(I) == alts[I + 1]
\* the alternatives of a type: by-type access is well-formed only when there is
\* exactly one (std::holds_alternative, std::get<T>, emplace<T>, converting =)
IndicesOf(T) == {I \in Indices : ith_type(I) = T}
exactly_once(T) == Cardinality(IndicesOf(T)) = 1
index_of(T) == CHOOSE I \in Indices : ith_type(I) = T
Types == {ith_type(I) : I \in Indices}

\* a Variant object that does not exist
VDead == [alive |-> FALSE, index |-> 0, val |-> 0, obj |-> 0]

\* vlast: the operation, the Variant it acted on, its source, the alternative
\* and value it stored, what was active before, and a comparison's results
VNoOp == [op |-> "init", o |-> "a", src |-> "a", idx |-> 0, val |-> 0,
          was_alive |-> FALSE, was_index |-> 0, was_obj |-> 0,
          three_way |-> "equal", eq |-> FALSE]

VHeap == [vnt |-> vnt, vobjs |-> vobjs]

\* what may be passed to construct a T: a value, or a referent's address
ArgsOf(T) == IF is_ref(T) THEN Addrs ELSE Vals
ArgsFor(I) == ArgsOf(ith_type(I))

(***************************************************************************)
(* std::variant, as the C++ standard specifies it                          *)
(***************************************************************************)
\* the active alternative's destructor runs
std_destroy(h, v) ==
    [h EXCEPT !.vobjs[h.vnt[v].obj] = IF @ < 2 THEN @ + 1 ELSE 2]

\* alternative I is constructed from x in the (unoccupied) storage
std_construct(h, v, I, x) ==
    [h EXCEPT !.vobjs = Append(@, 0),
              !.vnt[v] = [alive |-> TRUE, index |-> I, val |-> x, obj |-> Len(h.vobjs) + 1]]

\* std::variant::emplace<I>: destroy the active alternative, construct the new one
std_emplace(h, v, I, x) == std_construct(std_destroy(h, v), v, I, x)

\* std::variant::operator=(T&&) and the copy/move assignment: assign to the
\* active alternative when it is the one wanted, emplace otherwise
std_assign(h, v, I, x) ==
    IF h.vnt[v].index = I
    THEN [h EXCEPT !.vnt[v].val = x]
    ELSE std_emplace(h, v, I, x)

VRoom == Len(vobjs) < MaxVObjs

VCommit(h, l) ==
    /\ vnt' = h.vnt
    /\ vobjs' = h.vobjs
    /\ vlast' = l
    /\ UNCHANGED <<alts, ext, optVars, joinVars, mapVars, laterVars>>

VOp(name, v, src, I, x) ==
    [VNoOp EXCEPT !.op = name, !.o = v, !.src = src, !.idx = I, !.val = x,
                  !.was_alive = vnt[v].alive, !.was_index = vnt[v].index,
                  !.was_obj = vnt[v].obj]

(***************************************************************************)
(* variant: constructors, destructor, assignment, emplace                  *)
(***************************************************************************)
\* variant(): the first alternative, value-initialised
VDefaultCtor(v) ==
    /\ ~vnt[v].alive /\ VRoom
    /\ ~is_ref(ith_type(0))
    /\ VCommit(std_construct(VHeap, v, 0, 0), VOp("ctor", v, v, 0, 0))

\* variant(std::in_place_index_t<I>, args...) for a value or a reference alternative
VIndexCtor(v, I, x) ==
    /\ ~vnt[v].alive /\ VRoom
    /\ VCommit(std_construct(VHeap, v, I, x), VOp("index_ctor", v, v, I, x))

\* variant(const variant&) / variant(variant&&)
VCopyCtor(v, src) ==
    /\ ~vnt[v].alive /\ vnt[src].alive /\ v # src /\ VRoom
    /\ VCommit(std_construct(VHeap, v, vnt[src].index, vnt[src].val),
               VOp("copy_ctor", v, src, vnt[src].index, vnt[src].val))

\* ~variant()
VDtor(v) ==
    /\ vnt[v].alive
    /\ LET h == std_destroy(VHeap, v)
       IN  VCommit([h EXCEPT !.vnt[v] = VDead], VOp("dtor", v, v, vnt[v].index, vnt[v].val))

\* operator=(const variant&) / operator=(variant&&)
VCopyAssign(v, src) ==
    /\ vnt[v].alive /\ vnt[src].alive
    /\ VRoom \/ vnt[v].index = vnt[src].index
    /\ VCommit(std_assign(VHeap, v, vnt[src].index, vnt[src].val),
               VOp("copy_assign", v, src, vnt[src].index, vnt[src].val))

\* transform_in<T>(val): the storage_type<T> a value of T is stored as
transform_in(T, x) == x

\* operator=(T value), T one of the (value) alternatives: m_variant = transform_in(value)
VAssignValue(v, T, x) ==
    /\ vnt[v].alive
    /\ T \in Types /\ ~is_ref(T) /\ exactly_once(T)
    /\ VRoom \/ vnt[v].index = index_of(T)
    /\ VCommit(std_assign(VHeap, v, index_of(T), transform_in(T, x)),
               VOp("assign_value", v, v, index_of(T), x))

\* operator=(std::reference_wrapper<T>) that copies the referent into the owned T
VAssignRef_copies(v, T, x) ==
    /\ vnt[v].alive
    /\ T \in Types /\ is_ref(T) /\ exactly_once(T)
    /\ "int" \in Types /\ exactly_once("int")
    /\ VRoom \/ vnt[v].index = index_of("int")
    /\ VCommit(std_assign(VHeap, v, index_of("int"), ext[x]),
               VOp("assign_ref", v, v, index_of("int"), x))

\* operator=(std::reference_wrapper<T> ref), T& one of the alternatives:
\* m_variant = wrapped_reference<T>{ &ref.get() }
VAssignRef(v, T, x) ==
    /\ vnt[v].alive
    /\ T \in Types /\ is_ref(T) /\ exactly_once(T)
    /\ VRoom \/ vnt[v].index = index_of(T)
    /\ VCommit(std_assign(VHeap, v, index_of(T), x),
               VOp("assign_ref", v, v, index_of(T), x))

\* emplace<Type>(args...), for a value Type and for a reference Type
VEmplaceType(v, T, x) ==
    /\ vnt[v].alive /\ VRoom
    /\ T \in Types /\ exactly_once(T)
    /\ VCommit(std_emplace(VHeap, v, index_of(T), x),
               VOp("emplace_type", v, v, index_of(T), x))

\* emplace<I> that constructs over the active alternative without destroying it
VEmplaceIndex_leaks(v, I, x) ==
    /\ vnt[v].alive /\ VRoom
    /\ ~is_ref(ith_type(I))
    /\ VCommit(std_construct(VHeap, v, I, x), VOp("emplace_index", v, v, I, x))

\* emplace<I>(args...): its return type T& fits value alternatives only
VEmplaceIndex(v, I, x) ==
    /\ vnt[v].alive /\ VRoom
    /\ ~is_ref(ith_type(I))
    /\ VCommit(std_emplace(VHeap, v, I, x), VOp("emplace_index", v, v, I, x))

\* the caller writes one of its variables, which reference alternatives may refer to
VExtWrite(x, w) ==
    /\ ext[x] # w
    /\ ext' = [ext EXCEPT ![x] = w]
    /\ vlast' = [VNoOp EXCEPT !.op = "ext_write"]
    /\ UNCHANGED <<alts, vnt, vobjs, optVars, joinVars, mapVars, laterVars>>

(***************************************************************************)
(* variant: get and index                                                  *)
(***************************************************************************)
\* an Option<T&> as get returns it: disengaged, or bound to a location holding a value
None == [engaged |-> FALSE, at |-> "nowhere", val |-> 0]
Some(at, x) == [engaged |-> TRUE, at |-> at, val |-> x]

\* transform_out<T>(val): the held value itself, or the referent of a reference
transform_out(v, T) ==
    IF is_ref(T)
    THEN Some(vnt[v].val, ext[vnt[v].val])
    ELSE Some(<<"m_variant", v>>, vnt[v].val)

\* variant::index
index(v) == vnt[v].index

\* get<I>() &
get_index(v, I) ==
    IF index(v) = I THEN transform_out(v, ith_type(I)) ELSE None

\* get<T> that matches the active alternative's type with const and & stripped
get_type_decayed(v, T) ==
    LET decay(U) == IF is_ref(U) THEN "int" ELSE U
    IN  IF decay(ith_type(index(v))) = decay(T)
        THEN transform_out(v, ith_type(index(v)))
        ELSE None

\* get<T>() &: std::holds_alternative<storage_type<T>>(m_variant)
get_type(v, T) ==
    IF ith_type(index(v)) = T THEN transform_out(v, T) ELSE None

(***************************************************************************)
(* variant: comparison through covisit                                     *)
(***************************************************************************)
\* the built-in <=> on two values of an alternative's type, and on two indices
three_way(x, y) == IF x < y THEN "less" ELSE IF x > y THEN "greater" ELSE "equal"

\* visit() const& hands the visitor transform_out<T>(const storage_type<T>&), a
\* const T&: const for a value T and for const U&, but U& (not const) when T is U&
visited_const(T) == T # "int&"

\* the overload of the helper's overloaded{...} that covisit's call
\* covisitor(first, second) selects. first is bound by covisit's visitor as
\* const auto&; second is forwarded as visited. The typed overload
\* (const U&, const U&) and the generic (auto&, auto&) both take (const U, U'):
\* with a const second argument the conversions are the same and the
\* non-template wins; with a non-const one the generic's auto& binds it
\* without adding const, a better conversion, and the generic wins.
selected_overload(T1, T2) ==
    IF visited_const(T2) THEN "typed" ELSE "fallback"

\* the value handed to a visitor for the active alternative
visited(v) == IF is_ref(ith_type(index(v))) THEN ext[vnt[v].val] ELSE vnt[v].val

\* three_way_comparison_helper
three_way_comparison_helper(lhs, rhs) ==
    IF selected_overload(ith_type(index(lhs)), ith_type(index(rhs))) = "typed"
    THEN three_way(visited(lhs), visited(rhs))
    ELSE three_way(index(lhs), index(rhs))

\* operator<=>(const variant&, const variant&)
spaceship(lhs, rhs) ==
    IF index(lhs) # index(rhs)
    THEN three_way(index(lhs), index(rhs))
    ELSE three_way_comparison_helper(lhs, rhs)

\* equality_helper
equality_helper(lhs, rhs) ==
    IF selected_overload(ith_type(index(lhs)), ith_type(index(rhs))) = "typed"
    THEN visited(lhs) = visited(rhs)
    ELSE FALSE

\* operator==(const variant&, const variant&)
equals(lhs, rhs) ==
    IF index(lhs) # index(rhs) THEN FALSE ELSE equality_helper(lhs, rhs)

\* a <=> b and a == b are evaluated
VCompare(lhs, rhs) ==
    /\ vnt[lhs].alive /\ vnt[rhs].alive
    /\ VCommit(VHeap, [VOp("compare", lhs, rhs, index(lhs), 0) EXCEPT
                          !.three_way = spaceship(lhs, rhs), !.eq = equals(lhs, rhs)])

\* the instantiation is chosen; no Variant exists yet
InitVariant ==
    /\ alts \in TypeLists
    /\ vnt = [v \in VarIds |-> VDead]
    /\ vobjs = << >>
    /\ vlast = VNoOp

\* the Variant component at rest
IdleVariant ==
    /\ alts = <<"int", "string", "int&">>
    /\ vnt = [v \in VarIds |-> VDead]
    /\ vobjs = << >>
    /\ vlast = VNoOp

NextVariant ==
    \/ \E v \in VarIds : VDefaultCtor(v)
    \/ \E v \in VarIds, I \in Indices : \E x \in ArgsFor(I) : VIndexCtor(v, I, x)
    \/ \E v \in VarIds, src \in VarIds : VCopyCtor(v, src)
    \/ \E v \in VarIds : VDtor(v)
    \/ \E v \in VarIds, src \in VarIds : VCopyAssign(v, src)
    \/ \E v \in VarIds, T \in Types, x \in Vals : VAssignValue(v, T, x)
    \/ \E v \in VarIds, T \in Types, x \in Addrs : VAssignRef(v, T, x)
    \/ \E v \in VarIds, T \in Types : \E x \in ArgsOf(T) : VEmplaceType(v, T, x)
    \/ \E v \in VarIds, I \in Indices, x \in Vals : VEmplaceIndex(v, I, x)
    \/ \E x \in Addrs, w \in Vals : VExtWrite(x, w)
    \/ \E lhs \in VarIds, rhs \in VarIds : VCompare(lhs, rhs)

(***************************************************************************)
(* Claims about safet::variant                                             *)
(***************************************************************************)
\* the Variants that exist
VAlive == {v \in VarIds : vnt[v].alive}
\* the alternative object with this id is constructed and not yet destroyed
VLive(os, id) == id \in 1..Len(os) /\ os[id] = 0
\* the operations that store a value x as alternative I
StoreOps == {"ctor", "index_ctor", "copy_ctor", "copy_assign", "assign_value",
             "assign_ref", "emplace_type", "emplace_index"}
\* what get must yield for alternative I of v after x was stored in it
Stored(v, I, x) ==
    IF is_ref(ith_type(I)) THEN Some(x, ext[x]) ELSE Some(<<"m_variant", v>>, x)

\* C2: a Variant has exactly one active alternative: get of it, by index or by
\* type, is engaged and yields the value last stored, and get of every other
\* alternative is a disengaged Option.
C2_ExactlyOneActive ==
    /\ \A v \in VAlive :
          /\ Cardinality({I \in Indices : get_index(v, I).engaged}) = 1
          /\ \A T \in Types :
                exactly_once(T) => get_type(v, T) = get_index(v, index_of(T))
    /\ vlast.op \in StoreOps
       => LET v == vlast.o
          IN  /\ get_index(v, vlast.idx) = Stored(v, vlast.idx, vlast.val)
              /\ \A I \in Indices \ {vlast.idx} : get_index(v, I) = None
              /\ \A T \in Types :
                    exactly_once(T)
                    => get_type(v, T) = IF T = ith_type(vlast.idx)
                                        THEN Stored(v, vlast.idx, vlast.val)
                                        ELSE None

\* an emplace switched the active alternative: get of the new one is engaged,
\* get of the one active before is not
C2_Witness ==
    /\ vlast.op \in {"emplace_type", "emplace_index"}
    /\ vlast.was_index # vlast.idx
    /\ get_index(vlast.o, vlast.idx).engaged
    /\ ~get_index(vlast.o, vlast.was_index).engaged

\* no alternative object destroyed twice, none alive outside a Variant, and every
\* Variant holds a live one
C7_Lifetimes ==
    /\ \A id \in 1..Len(vobjs) : vobjs[id] <= 1
    /\ \A id \in 1..Len(vobjs) :
          VLive(vobjs, id) => Cardinality({v \in VAlive : vnt[v].obj = id}) = 1
    /\ \A v \in VAlive : VLive(vobjs, vnt[v].obj)

\* C7: a step that switches a Variant's active alternative, or destroys the
\* Variant, destroys the value that was active exactly once, and the new active
\* value is a live object of its own; no alternative value is destroyed twice or
\* leaked.
C7_SwitchDestroysOnce ==
    [][ /\ C7_Lifetimes'
        /\ \A v \in VarIds :
              (vnt[v].alive /\ (~vnt'[v].alive \/ vnt'[v].index # vnt[v].index))
              => /\ vobjs'[vnt[v].obj] = 1
                 /\ vnt'[v].alive => /\ vnt'[v].obj # vnt[v].obj
                                     /\ vobjs'[vnt'[v].obj] = 0
      ]_vars

\* an assignment or emplace switched the alternative; the old value is destroyed
C7_Witness ==
    /\ vlast.op \in {"emplace_type", "emplace_index", "assign_value", "assign_ref", "copy_assign"}
    /\ vlast.was_alive /\ vlast.was_index # vlast.idx
    /\ vobjs[vlast.was_obj] = 1
    /\ vnt[vlast.o].obj # vlast.was_obj

\* C12: in a Variant with alternatives int and int&, v = x (a plain value)
\* makes int the active alternative holding x's value, get<int&>() is empty, and
\* no later write to a caller's variable changes what get<int>() yields;
\* v = std::ref(x) makes int& the active alternative, get<int>() is empty, and
\* get<int&>() yields x's current value then and after every later write to x.
C12_OwnedVersusReference ==
    [][ \A v \in VarIds :
          /\ (vlast'.op = "assign_value" /\ vlast'.o = v
                /\ ith_type(vlast'.idx) = "int" /\ "int&" \in Types)
             => /\ ~(get_type(v, "int&"))'.engaged
                /\ (get_type(v, "int"))' = Some(<<"m_variant", v>>, vlast'.val)
          /\ (vlast'.op = "assign_ref" /\ vlast'.o = v)
             => /\ (get_type(v, "int"))' = None
                /\ (get_index(v, index(v)))' = Some(vlast'.val, ext'[vlast'.val])
                /\ is_ref(ith_type((index(v))'))
          /\ (vlast'.op = "ext_write" /\ vnt[v].alive)
             => IF is_ref(ith_type(index(v)))
                THEN (get_index(v, index(v)))' = Some(vnt[v].val, ext'[vnt[v].val])
                ELSE (get_index(v, index(v)))' = get_index(v, index(v))
      ]_vars

\* v held the owned int and v = std::ref(x) switched it to int&
C12_Witness ==
    /\ vlast.op = "assign_ref" /\ vlast.was_alive
    /\ ith_type(vlast.was_index) = "int" /\ exactly_once("int")
    /\ get_type(vlast.o, "int&").engaged
    /\ ~get_type(vlast.o, "int").engaged

\* a caller's variable was written while a Variant held an owned int of another value
C12_WitnessOwned ==
    /\ vlast.op = "ext_write"
    /\ \E v \in VAlive : /\ ith_type(index(v)) = "int"
                         /\ \A x \in Addrs : ext[x] # vnt[v].val

\* C10: Variants with different active indices compare unequal and order by
\* index; Variants with the same active index compare as their active values do.
C10_IndexThenValue ==
    vlast.op = "compare"
    => LET a == vlast.o
           b == vlast.src
       IN  IF index(a) # index(b)
           THEN vlast.three_way = three_way(index(a), index(b)) /\ ~vlast.eq
           ELSE /\ vlast.three_way = three_way(visited(a), visited(b))
                /\ vlast.eq <=> (visited(a) = visited(b))

\* C10 where the active alternative is not a non-const reference (U&)
C10_ExceptMutableReference ==
    (vlast.op = "compare" /\ visited_const(ith_type(index(vlast.src))))
    => C10_IndexThenValue

\* two Variants with the same value alternative active were compared
C10_Witness ==
    /\ vlast.op = "compare" /\ vlast.o # vlast.src
    /\ index(vlast.o) = index(vlast.src)
    /\ visited(vlast.o) # visited(vlast.src)

(***************************************************************************)
(* safet::range: positions in the underlying containers                    *)
(*                                                                         *)
(* The base iterators are std::vector<int>::iterator. A position is a      *)
(* container and a 1-based index, Len + 1 being end(). Reading end() or    *)
(* stepping past it is undefined: the read yields any value, and the run   *)
(* is not followed further.                                                *)
(***************************************************************************)
Conts == {"A", "B"}
Seqs == UNION {[1..n -> Vals] : n \in 0..MaxLen}
\* what a read of storage past the last element may yield besides a Val
Garbage == {0}

cont(c) == IF c = "A" THEN jin.a ELSE jin.b
Pos(c, i) == [c |-> c, i |-> i]
begin(c) == Pos(c, 1)
end(c) == Pos(c, Len(cont(c)) + 1)
dereferenceable(p) == p.i \in 1..Len(cont(p.c))
\* *p: the element, or anything when p is not dereferenceable
deref(p) == IF dereferenceable(p) THEN {cont(p.c)[p.i]} ELSE Vals \cup Garbage
\* ++p
incr(p) == [p EXCEPT !.i = @ + 1]
\* p == q: the same address; vectors without storage all have begin() == end() == nullptr
iter_eq(p, q) == \/ p = q
                 \/ ~jin.storage[p.c] /\ ~jin.storage[q.c] /\ p.i = q.i

(***************************************************************************)
(* range_impl::iterator_value_cache<ValueType>, ValueType copyable          *)
(***************************************************************************)
\* the cache's optional<iterator_value_wrapper<ValueType>>, disengaged
NoValue == [engaged |-> FALSE, val |-> 0]
\* optional::get_or_instantiate(f): if empty, computes f() and stores it
optional_get_or_instantiate(m_value, x) ==
    IF m_value.engaged THEN m_value ELSE [engaged |-> TRUE, val |-> x]
\* iterator_value_cache::get_or_instantiate(f), f() yielding x
get_or_instantiate(m_value, x) == optional_get_or_instantiate(m_value, x)
\* f is invoked by get_or_instantiate only when the cache is empty
instantiates(m_value) == ~m_value.engaged
\* iterator_value_cache::clear(): m_value = std::nullopt
clear(m_value) == NoValue

(***************************************************************************)
(* joined_iterator<Iter, Iter> (both ranges have the same iterator type)   *)
(* and range::join, driven by the loop                                     *)
(*     for (auto it = j.begin(); it != j.end(); ++it) out.push_back(it.operator*());  *)
(***************************************************************************)
\* the container the second range is over: a's own, or b
second == IF jin.same THEN "A" ELSE "B"
\* joined_iterator(pos, optional<Iter> first_range_end, second_range_begin)
joined_iterator(pos, first_range_end, second_range_begin) ==
    [m_base_iterator |-> pos,
     m_first_range_end |-> first_range_end,
     m_second_range_begin |-> second_range_begin,
     m_last_value |-> NoValue]
\* an engaged optional<Iter>
Marker(p) == [engaged |-> TRUE, pos |-> p]
\* range::join: the begin and the end of the joined range
join_begin == joined_iterator(begin("A"), Marker(end("A")), begin(second))
join_end == joined_iterator(end(second), Marker(end("A")), begin(second))

\* the condition under which reconcile moves to the second range
crosses(it) == /\ it.m_first_range_end.engaged
               /\ iter_eq(it.m_base_iterator, it.m_first_range_end.pos)
\* joined_iterator::reconcile
reconcile(it) ==
    LET c == [it EXCEPT !.m_last_value = clear(@)]
    IN  IF crosses(c)
        THEN [c EXCEPT !.m_base_iterator = c.m_second_range_begin,
                       !.m_first_range_end = [engaged |-> FALSE, pos |-> @.pos]]
        ELSE c

JStart == [pc |-> "start", it |-> joined_iterator(Pos("A", 1), Marker(Pos("A", 1)), Pos("A", 1)),
           end |-> joined_iterator(Pos("A", 1), Marker(Pos("A", 1)), Pos("A", 1)),
           ret |-> joined_iterator(Pos("A", 1), Marker(Pos("A", 1)), Pos("A", 1)),
           out |-> <<>>, switches |-> 0, ub |-> FALSE]

\* auto j = range(a).join(range(b)); auto it = j.begin();
Join ==
    /\ jn.pc = "start"
    /\ jn' = [jn EXCEPT !.pc = "test", !.it = join_begin, !.end = join_end]
    /\ UNCHANGED <<jin, optVars, ext, varVars, mapVars, laterVars>>

\* it != j.end(): joined_iterator::operator!=
JoinNotEqual ==
    /\ jn.pc = "test" /\ ~jn.ub
    /\ jn' = [jn EXCEPT !.pc = IF iter_eq(jn.it.m_base_iterator, jn.end.m_base_iterator)
                               THEN "done" ELSE "body"]
    /\ UNCHANGED <<jin, optVars, ext, varVars, mapVars, laterVars>>

\* out.push_back(it.operator*()): joined_iterator::operator*
JoinDeref ==
    /\ jn.pc = "body" /\ ~jn.ub
    /\ \E x \in deref(jn.it.m_base_iterator) :
          LET m == get_or_instantiate(jn.it.m_last_value, x)
          IN  jn' = [jn EXCEPT !.pc = "incr",
                               !.it.m_last_value = m,
                               !.out = Append(@, m.val),
                               !.ub = instantiates(jn.it.m_last_value)
                                      /\ ~dereferenceable(jn.it.m_base_iterator)]
    /\ UNCHANGED <<jin, optVars, ext, varVars, mapVars, laterVars>>

\* the iterator after ++m_base_iterator; reconcile()
stepped(it) == reconcile([it EXCEPT !.m_base_iterator = incr(@)])
\* the loop state after the increment of jn.it
JoinStep ==
    [jn EXCEPT !.pc = "test",
               !.it = stepped(jn.it),
               !.switches = IF crosses([jn.it EXCEPT !.m_base_iterator = incr(@)])
                            THEN @ + 1 ELSE @,
               !.ub = ~dereferenceable(jn.it.m_base_iterator)]

\* ++it: joined_iterator::operator++()
JoinPreIncr ==
    /\ jn.pc = "incr" /\ ~jn.ub
    /\ jn' = JoinStep
    /\ UNCHANGED <<jin, optVars, ext, varVars, mapVars, laterVars>>

\* it++: joined_iterator::operator++(int), the copy it returns kept in ret
JoinPostIncr ==
    /\ jn.pc = "incr" /\ ~jn.ub
    /\ jn' = [JoinStep EXCEPT !.ret = joined_iterator(jn.it.m_base_iterator,
                                                       jn.it.m_first_range_end,
                                                       jn.it.m_second_range_begin)]
    /\ UNCHANGED <<jin, optVars, ext, varVars, mapVars, laterVars>>

\* any two vectors of at most MaxLen elements, or one vector joined with itself;
\* an empty vector may or may not own storage
InitJoin ==
    /\ jin \in [a : Seqs, b : Seqs, same : BOOLEAN, storage : [Conts -> BOOLEAN]]
    /\ jin.same => jin.b = <<>> /\ jin.storage["B"]
    /\ \A c \in Conts : Len(cont(c)) > 0 => jin.storage[c]
    /\ jn = JStart

IdleJoin ==
    /\ jin = [a |-> <<1>>, b |-> <<2>>, same |-> FALSE, storage |-> [c \in Conts |-> TRUE]]
    /\ jn = JStart

NextJoin ==
    \/ Join
    \/ JoinNotEqual
    \/ JoinDeref
    \/ JoinPreIncr
    \/ JoinPostIncr

(***************************************************************************)
(* mapped_iterator<Iter, Mapper> over range(c).map(f), f counting its      *)
(* invocations. "it" is the caller's iterator, "copy" the iterator that    *)
(* the last it++ returned. Per iterator object the caller records how      *)
(* often f ran for it (calls), at which positions it was dereferenced      *)
(* (seen) and how often at the current one (derefs).                       *)
(***************************************************************************)
MapIds == {"it", "copy"}
\* the transform f
Mapper(x) == 10 * x
\* mapped_iterator(pos, mapper)
mapped_iterator(pos) ==
    [alive |-> TRUE, m_base_iterator |-> pos, m_mapped_value |-> NoValue,
     calls |-> 0, seen |-> {}, derefs |-> 0, ret |-> 0]
MNone == [alive |-> FALSE, m_base_iterator |-> 1, m_mapped_value |-> NoValue,
          calls |-> 0, seen |-> {}, derefs |-> 0, ret |-> 0]

\* auto it = range(c).map(f).begin();
Map ==
    /\ ~mp["it"].alive
    /\ mp' = [mp EXCEPT !["it"] = mapped_iterator(1)]
    /\ UNCHANGED <<mseq, optVars, ext, varVars, joinVars, laterVars>>

\* m_mapped_value.get_or_instantiate([this] { return {m_mapper(m_base_iterator.operator*())}; })
\* on the iterator object i, the value it returns kept in ret
cached(i) ==
    LET m == get_or_instantiate(i.m_mapped_value, Mapper(mseq[i.m_base_iterator]))
    IN  [i EXCEPT !.m_mapped_value = m,
                  !.calls = IF instantiates(i.m_mapped_value) THEN @ + 1 ELSE @,
                  !.seen = @ \cup {i.m_base_iterator},
                  !.derefs = @ + 1,
                  !.ret = m.val]

\* *it: mapped_iterator::operator*
MapDeref(id) ==
    /\ mp[id].alive /\ mp[id].m_base_iterator \in 1..Len(mseq)
    /\ mp[id].derefs < MaxDerefs
    /\ mp' = [mp EXCEPT ![id] = cached(@)]
    /\ UNCHANGED <<mseq, optVars, ext, varVars, joinVars, laterVars>>

\* it.operator->(): mapped_iterator::operator->
MapArrow(id) ==
    /\ mp[id].alive /\ mp[id].m_base_iterator \in 1..Len(mseq)
    /\ mp[id].derefs < MaxDerefs
    /\ mp' = [mp EXCEPT ![id] = cached(@)]
    /\ UNCHANGED <<mseq, optVars, ext, varVars, joinVars, laterVars>>

\* operator++ that keeps the cached value
MapPreIncr_keeps(id) ==
    /\ mp[id].alive /\ mp[id].m_base_iterator \in 1..Len(mseq)
    /\ mp' = [mp EXCEPT ![id].m_base_iterator = @ + 1,
                        ![id].derefs = 0]
    /\ UNCHANGED <<mseq, optVars, ext, varVars, joinVars, laterVars>>

\* ++it: mapped_iterator::operator++()
MapPreIncr(id) ==
    /\ mp[id].alive /\ mp[id].m_base_iterator \in 1..Len(mseq)
    /\ mp' = [mp EXCEPT ![id].m_base_iterator = @ + 1,
                        ![id].m_mapped_value = clear(@),
                        ![id].derefs = 0]
    /\ UNCHANGED <<mseq, optVars, ext, varVars, joinVars, laterVars>>

\* it++: mapped_iterator::operator++(int); the copy is a new iterator at the old position
MapPostIncr(id) ==
    /\ id = "it"
    /\ mp[id].alive /\ mp[id].m_base_iterator \in 1..Len(mseq)
    /\ mp' = [mp EXCEPT !["copy"] = mapped_iterator(mp[id].m_base_iterator),
                        ![id].m_base_iterator = @ + 1,
                        ![id].m_mapped_value = clear(@),
                        ![id].derefs = 0]
    /\ UNCHANGED <<mseq, optVars, ext, varVars, joinVars, laterVars>>

InitMap ==
    /\ mseq \in Seqs
    /\ mp = [id \in MapIds |-> MNone]

IdleMap ==
    /\ mseq = <<1>>
    /\ mp = [id \in MapIds |-> MNone]

NextMap ==
    \/ Map
    \/ \E id \in MapIds : MapDeref(id)
    \/ \E id \in MapIds : MapArrow(id)
    \/ \E id \in MapIds : MapPreIncr(id)
    \/ \E id \in MapIds : MapPostIncr(id)

(***************************************************************************)
(* Claims about safet::range                                               *)
(***************************************************************************)
\* a's elements followed by the second range's
Expected == jin.a \o cont(second)
IsPrefix(s, t) == Len(s) <= Len(t) /\ SubSeq(t, 1, Len(s)) = s

\* C3: the loop over range(a).join(range(b)) yields a's elements in order and
\* then b's, whatever the lengths of a and b, reads no position that holds no
\* element, and moves from a's range to b's begin exactly once.
C3_JoinYieldsAThenB ==
    /\ IsPrefix(jn.out, Expected)
    /\ ~jn.ub
    /\ jn.switches <= 1
    /\ jn.pc = "done" => /\ jn.out = Expected
                         /\ Len(cont(second)) > 0 => jn.switches = 1

\* C3 for a non-empty first range
C3_FirstNotEmpty == Len(jin.a) > 0 => C3_JoinYieldsAThenB

\* the loop ran to the end over two non-empty vectors
C3_Witness ==
    /\ jn.pc = "done" /\ ~jin.same
    /\ Len(jin.a) = MaxLen /\ Len(jin.b) = MaxLen
    /\ jn.switches = 1

\* the loop starts on an empty first range followed by a non-empty second one
C3_WitnessEmptyFirst ==
    /\ jn.pc = "body" /\ jin.a = <<>> /\ Len(jin.b) > 0
    /\ jn.out = <<>>

\* C24: the joined position moves to the second range's begin once, at the
\* increment that reaches the first range's end, and the marker is cleared with
\* it: the marker is engaged exactly as long as no move was made, and while it
\* is engaged the position is on an element of the first range.
C24_SwitchesOnceAtFirstEnd ==
    (jn.pc # "start" /\ ~jn.ub)
    => /\ jn.switches <= 1
       /\ jn.switches = 1 <=> ~jn.it.m_first_range_end.engaged
       /\ jn.it.m_first_range_end.engaged
          => /\ jn.it.m_base_iterator.c = "A"
             /\ dereferenceable(jn.it.m_base_iterator)

\* C24 for a non-empty first range
C24_FirstNotEmpty == Len(jin.a) > 0 => C24_SwitchesOnceAtFirstEnd

\* once the marker is cleared it is never set again, and the position only
\* steps from one element to the next
C24_NoJumpAfterSwitch ==
    [][~jn.it.m_first_range_end.engaged
       => /\ ~jn'.it.m_first_range_end.engaged
          /\ jn'.switches = jn.switches
          /\ jn'.it.m_base_iterator \in {jn.it.m_base_iterator,
                                         incr(jn.it.m_base_iterator)}]_vars

\* a range joined with itself was walked to the end: after the move the position
\* came to the first range's end again
C24_WitnessSameRange ==
    /\ jn.pc = "done" /\ jin.same /\ Len(jin.a) = MaxLen
    /\ jn.switches = 1
    /\ iter_eq(jn.it.m_base_iterator, jn.it.m_first_range_end.pos)

\* C4: for every mapped iterator object the transform has run once for each
\* position the object was dereferenced at (by operator* or operator->), however
\* often it was dereferenced there, and what a dereference returns is the
\* transform of the element at the iterator's position.
C4_TransformOncePerPosition ==
    \A id \in MapIds :
        mp[id].alive
        => /\ mp[id].calls = Cardinality(mp[id].seen)
           /\ mp[id].derefs > 0
              => /\ mp[id].m_mapped_value.engaged
                 /\ mp[id].ret = Mapper(mseq[mp[id].m_base_iterator])

\* the iterator was dereferenced twice at its first position, incremented, and
\* dereferenced twice again
C4_Witness ==
    /\ mp["it"].alive /\ mp["it"].m_base_iterator = 2
    /\ mp["it"].derefs = 2
    /\ mp["it"].seen = {1, 2}
    /\ mp["it"].calls = 2

(***************************************************************************)
(* optional<T>: the combinators that return a value, and the comparison    *)
(* operators built on them. An Option is read as [engaged, val]; T is int. *)
(***************************************************************************)
\* the ints the comparisons are tried on
CmpVals == {-1, 0, 1}
Nullopt == [engaged |-> FALSE, val |-> 0]
Engaged(x) == [engaged |-> TRUE, val |-> x]
CmpOptionals == {Nullopt} \cup {Engaged(x) : x \in CmpVals}

\* if_set(f) const&, f returning something: optional<result of f>
if_set_returning(o, f) == IF o.engaged THEN Engaged(f[o.val]) ELSE Nullopt
\* and_then(f) const&, f returning an optional
and_then(o, f) == IF o.engaged THEN f[o.val] ELSE Nullopt
\* value_or(f) const&, f() yielding d
value_or(o, d) == IF o.engaged THEN o.val ELSE d
\* bool <=> bool: false < true
bool_three_way(p, q) == three_way(IF p THEN 1 ELSE 0, IF q THEN 1 ELSE 0)

\* operator<=> that orders an empty Option after an engaged one
optional_spaceship_emptiness(lhs, rhs) ==
    value_or(and_then(lhs, [lhs_value \in CmpVals |->
                 if_set_returning(rhs, [rhs_value \in CmpVals |-> three_way(lhs_value, rhs_value)])]),
             bool_three_way(~lhs.engaged, ~rhs.engaged))

\* operator<=>(const optional<T>&, const optional<T>&)
optional_spaceship(lhs, rhs) ==
    value_or(and_then(lhs, [lhs_value \in CmpVals |->
                 if_set_returning(rhs, [rhs_value \in CmpVals |-> three_way(lhs_value, rhs_value)])]),
             bool_three_way(lhs.engaged, rhs.engaged))

\* operator==(const optional<T>&, const optional<T>&)
optional_equals(lhs, rhs) ==
    value_or(and_then(lhs, [lhs_value \in CmpVals |->
                 if_set_returning(rhs, [rhs_value \in CmpVals |-> lhs_value = rhs_value])]),
             ~lhs.engaged /\ ~rhs.engaged)

\* operator<=>(const optional<T>&, const U&)
optional_spaceship_value(lhs, rhs) ==
    value_or(if_set_returning(lhs, [lhs_value \in CmpVals |-> three_way(lhs_value, rhs)]), "less")

\* operator==(const optional<T>&, const U&)
optional_equals_value(lhs, rhs) ==
    value_or(if_set_returning(lhs, [lhs_value \in CmpVals |-> lhs_value = rhs]), FALSE)

CmpStart(l, k, r) ==
    [lhs |-> l, kind |-> k, rhs |-> r, ordered |-> FALSE, three_way |-> "equal",
     tested |-> FALSE, eq |-> FALSE]

\* lhs <=> rhs, both Options
CompareOptionals ==
    /\ cmp.kind = "optional" /\ ~cmp.ordered
    /\ cmp' = [cmp EXCEPT !.ordered = TRUE, !.three_way = optional_spaceship(cmp.lhs, cmp.rhs)]
    /\ UNCHANGED notCmp

\* lhs == rhs, both Options
EqualOptionals ==
    /\ cmp.kind = "optional" /\ ~cmp.tested
    /\ cmp' = [cmp EXCEPT !.tested = TRUE, !.eq = optional_equals(cmp.lhs, cmp.rhs)]
    /\ UNCHANGED notCmp

\* lhs <=> rhs, rhs a plain value
CompareWithValue ==
    /\ cmp.kind = "value" /\ ~cmp.ordered
    /\ cmp' = [cmp EXCEPT !.ordered = TRUE,
                          !.three_way = optional_spaceship_value(cmp.lhs, cmp.rhs)]
    /\ UNCHANGED notCmp

\* lhs == rhs, rhs a plain value
EqualWithValue ==
    /\ cmp.kind = "value" /\ ~cmp.tested
    /\ cmp' = [cmp EXCEPT !.tested = TRUE, !.eq = optional_equals_value(cmp.lhs, cmp.rhs)]
    /\ UNCHANGED notCmp

InitCompare ==
    \E l \in CmpOptionals :
        \/ \E r \in CmpOptionals : cmp = CmpStart(l, "optional", r)
        \/ \E r \in CmpVals : cmp = CmpStart(l, "value", r)

IdleCompare == cmp = CmpStart(Nullopt, "optional", Nullopt)

NextCompare ==
    \/ CompareOptionals
    \/ EqualOptionals
    \/ CompareWithValue
    \/ EqualWithValue

\* C11: an empty Option is less than every engaged Option and every plain value
\* and equals only an empty Option; an engaged Option is greater than an empty
\* one, and compares with an engaged Option or a plain value as the held value
\* compares with the other value.
C11_OptionComparison ==
    LET l == cmp.lhs
        r == cmp.rhs
        r_empty == cmp.kind = "optional" /\ ~r.engaged
        r_value == IF cmp.kind = "optional" THEN r.val ELSE r
    IN  /\ cmp.ordered
           => cmp.three_way = IF ~l.engaged /\ r_empty THEN "equal"
                              ELSE IF ~l.engaged THEN "less"
                              ELSE IF r_empty THEN "greater"
                              ELSE three_way(l.val, r_value)
        /\ cmp.tested
           => cmp.eq = IF ~l.engaged \/ r_empty THEN ~l.engaged /\ r_empty
                       ELSE l.val = r_value

\* an empty Option was compared with an engaged one both ways
C11_Witness ==
    /\ cmp.ordered /\ cmp.tested /\ cmp.kind = "optional"
    /\ ~cmp.lhs.engaged /\ cmp.rhs.engaged
    /\ cmp.three_way = "less" /\ ~cmp.eq

(***************************************************************************)
(* range(c).filter(pred).map(f) followed by a terminal operation:          *)
(* collect<std::vector>(), collect<std::list>() or fold(combiner, seed).   *)
(* c is a std::vector<int>; positions in it are 1-based indices, Len + 1   *)
(* being end(). pred is the set of values it holds for. The caller counts  *)
(* the invocations of pred (per position), of f and of combiner, and the   *)
(* walks of the pipeline from its begin.                                   *)
(***************************************************************************)
Preds == SUBSET Vals
Transforms == {"square", "negate"}
apply(f, x) == IF f = "square" THEN x * x ELSE 0 - x
\* the combiner handed to fold: neither commutative nor associative
combiner(acc, x) == 2 * acc + x
Seeds == {0, 1}
Terminals == {"vector", "list", "fold"}

PEnd == Len(pin.c) + 1

\* iterator_value_cache::emplace
emplace(m_value, x) == [engaged |-> TRUE, val |-> x]

\* skip_invalid_items that stays on the element it finds
skip_invalid_items_stays(it) == it
\* filtered_iterator::skip_invalid_items
RECURSIVE skip_invalid_items(_)
skip_invalid_items(it) ==
    IF it.m_base_iterator # it.m_base_end_iterator
    THEN LET m == emplace(it.m_last_value, pin.c[it.m_base_iterator])
         IN  IF m.val \in pin.pred
             THEN [it EXCEPT !.m_last_value = m]
             ELSE skip_invalid_items([it EXCEPT !.m_last_value = m,
                                                !.m_base_iterator = @ + 1])
    ELSE it
\* the positions skip_invalid_items(it) invokes m_filter on
tested(it) ==
    {i \in it.m_base_iterator..(it.m_base_end_iterator - 1) :
        i <= skip_invalid_items(it).m_base_iterator}
\* filtered_iterator(pos, end, filter)
filtered_iterator(pos, e) ==
    skip_invalid_items([m_base_iterator |-> pos, m_base_end_iterator |-> e,
                        m_last_value |-> NoValue])
\* filtered_iterator::operator++(), before and after skip_invalid_items
filtered_moved(it) == [it EXCEPT !.m_base_iterator = @ + 1]
filtered_incr(it) == skip_invalid_items(filtered_moved(it))
\* filtered_iterator::operator*
filtered_deref(it) == get_or_instantiate(it.m_last_value, pin.c[it.m_base_iterator]).val

\* mapped_iterator<filtered_iterator, Mapper>(pos, mapper)
piped_iterator(pos) == [m_base_iterator |-> pos, m_mapped_value |-> NoValue]
\* mapped_iterator::operator++()
piped_incr(it) == [it EXCEPT !.m_base_iterator = filtered_incr(@),
                             !.m_mapped_value = clear(@)]
\* mapped_iterator::operator*: the cache after it (its val is what is returned)
piped_deref(it) ==
    get_or_instantiate(it.m_mapped_value, apply(pin.f, filtered_deref(it.m_base_iterator)))
\* mapped_iterator::operator==
piped_eq(it, other) ==
    it.m_base_iterator.m_base_iterator = other.m_base_iterator.m_base_iterator

\* pred_calls after skip_invalid_items ran on it
counted(calls, it) == [i \in DOMAIN calls |-> IF i \in tested(it) THEN calls[i] + 1 ELSE calls[i]]

PNoIter == [m_base_iterator |-> 1, m_base_end_iterator |-> 1, m_last_value |-> NoValue]
PStart ==
    [pc |-> "start", fbegin |-> PNoIter, fend |-> PNoIter,
     first |-> piped_iterator(PNoIter), last |-> piped_iterator(PNoIter),
     cur |-> piped_iterator(PNoIter),
     out |-> <<>>, acc |-> 0, n |-> 0, walks |-> 0,
     pred_calls |-> [i \in 1..Len(pin.c) |-> 0], f_calls |-> 0, combiner_calls |-> 0]

\* range(c).filter(pred)
PipeFilter ==
    /\ pl.pc = "start"
    /\ pl' = [pl EXCEPT !.pc = "filtered",
                        !.fbegin = filtered_iterator(1, PEnd),
                        !.fend = filtered_iterator(PEnd, PEnd),
                        !.pred_calls = counted(@, [PNoIter EXCEPT !.m_base_end_iterator = PEnd])]
    /\ UNCHANGED <<pin, notPipe>>

\* .map(f) on the filtered range
PipeMap ==
    /\ pl.pc = "filtered"
    /\ pl' = [pl EXCEPT !.pc = "mapped",
                        !.first = piped_iterator(pl.fbegin),
                        !.last = piped_iterator(pl.fend)]
    /\ UNCHANGED <<pin, notPipe>>

\* the terminal operation starts on copies of m_begin and m_end:
\* std::vector's iterator-pair constructor, given forward iterators, first takes
\* std::distance(first, last); std::list's and std::accumulate go straight through
PipeTerminal ==
    /\ pl.pc = "mapped"
    /\ pl' = [pl EXCEPT !.pc = CASE pin.terminal = "vector" -> "distance"
                                 [] pin.terminal = "list" -> "copy"
                                 [] pin.terminal = "fold" -> "accumulate",
                        !.cur = pl.first, !.walks = 1, !.acc = pin.seed]
    /\ UNCHANGED <<pin, notPipe>>

\* cur after ++cur, and the pred calls that makes
PipeAdvance(l) ==
    [l EXCEPT !.cur = piped_incr(@),
              !.pred_calls = counted(@, filtered_moved(l.cur.m_base_iterator))]

\* std::distance: while (first != last) { ++first; ++n; }, then the copy starts over
DistanceStep ==
    /\ pl.pc = "distance"
    /\ pl' = IF piped_eq(pl.cur, pl.last)
             THEN [pl EXCEPT !.pc = "copy", !.cur = pl.first, !.walks = @ + 1]
             ELSE [PipeAdvance(pl) EXCEPT !.n = @ + 1]
    /\ UNCHANGED <<pin, notPipe>>

\* the container's copy loop: for (; first != last; ++first) push_back(first.operator*())
CopyStep ==
    /\ pl.pc = "copy"
    /\ pl' = IF piped_eq(pl.cur, pl.last)
             THEN [pl EXCEPT !.pc = "done"]
             ELSE [PipeAdvance(pl) EXCEPT
                      !.out = Append(@, piped_deref(pl.cur).val),
                      !.f_calls = IF instantiates(pl.cur.m_mapped_value) THEN @ + 1 ELSE @]
    /\ UNCHANGED <<pin, notPipe>>

\* fold that hands the combiner its arguments the other way round
accumulate_step_swapped(acc, x) == combiner(x, acc)
\* std::accumulate's body: init = f(std::move(init), first.operator*())
accumulate_step(acc, x) == combiner(acc, x)

\* range::fold: std::accumulate(m_begin, m_end, start_value, f)
AccumulateStep ==
    /\ pl.pc = "accumulate"
    /\ pl' = IF piped_eq(pl.cur, pl.last)
             THEN [pl EXCEPT !.pc = "done"]
             ELSE [PipeAdvance(pl) EXCEPT
                      !.acc = accumulate_step(@, piped_deref(pl.cur).val),
                      !.combiner_calls = @ + 1,
                      !.f_calls = IF instantiates(pl.cur.m_mapped_value) THEN @ + 1 ELSE @]
    /\ UNCHANGED <<pin, notPipe>>

InitPipe ==
    /\ pin \in [c : Seqs, pred : Preds, f : Transforms, terminal : Terminals, seed : Seeds]
    /\ pin.terminal # "fold" => pin.seed = 0
    /\ pl = PStart

IdlePipe ==
    /\ pin = [c |-> <<1>>, pred |-> Vals, f |-> "square", terminal |-> "list", seed |-> 0]
    /\ pl = PStart

NextPipe ==
    \/ PipeFilter
    \/ PipeMap
    \/ PipeTerminal
    \/ DistanceStep
    \/ CopyStep
    \/ AccumulateStep

\* f(x) for the x of c with pred(x), in c's order
Selected == SelectSeq(pin.c, LAMBDA x : x \in pin.pred)
PipeExpected == [i \in 1..Len(Selected) |-> apply(pin.f, Selected[i])]
\* combiner(...combiner(combiner(seed, e1), e2)..., en)
RECURSIVE running_reduction(_, _)
running_reduction(seed, es) ==
    IF es = <<>> THEN seed
    ELSE combiner(running_reduction(seed, SubSeq(es, 1, Len(es) - 1)), es[Len(es)])

\* the pipeline was walked from begin to end once: every element of c went
\* through pred once
VisitedOnce == \A i \in 1..Len(pin.c) : pl.pred_calls[i] = 1

\* C13: range(c).filter(pred).map(f).collect() yields f(x) for exactly the x of
\* c that satisfy pred, in c's order, and visits the pipeline from begin to end
\* once.
C13_CollectOnce ==
    (pl.pc = "done" /\ pin.terminal \in {"vector", "list"})
    => /\ pl.out = PipeExpected
       /\ VisitedOnce

\* C13 for collect<std::list>
C13_CollectListOnce == pin.terminal = "list" => C13_CollectOnce

\* C13 without the single walk: the collected sequence, and one call of f per element
C13_CollectYields ==
    (pl.pc = "done" /\ pin.terminal \in {"vector", "list"})
    => /\ pl.out = PipeExpected
       /\ pl.f_calls = Len(PipeExpected)

\* a vector was collected from a container whose elements pred all accepts:
\* the last one went through pred twice
C13_WitnessTwice ==
    /\ pl.pc = "done" /\ pin.terminal = "vector"
    /\ Len(pin.c) = MaxLen /\ Len(pl.out) = MaxLen
    /\ pl.pred_calls[MaxLen] = 2

\* C14: fold(combiner, seed) returns combiner(...combiner(seed, e1)..., en) over
\* the range's elements in iteration order, calling the combiner once per
\* element; over an empty range it returns the seed and never calls it.
C14_FoldLeftToRight ==
    (pl.pc = "done" /\ pin.terminal = "fold")
    => /\ pl.acc = running_reduction(pin.seed, PipeExpected)
       /\ pl.combiner_calls = Len(PipeExpected)
       /\ VisitedOnce
       /\ PipeExpected = <<>> => pl.acc = pin.seed /\ pl.combiner_calls = 0

\* a fold over two different elements has finished
C14_Witness ==
    /\ pl.pc = "done" /\ pin.terminal = "fold"
    /\ Len(PipeExpected) = 2 /\ PipeExpected[1] # PipeExpected[2]
    /\ pl.combiner_calls = 2

\* a fold over an empty range has finished
C14_WitnessEmpty ==
    /\ pl.pc = "done" /\ pin.terminal = "fold"
    /\ PipeExpected = <<>> /\ pin.seed = 1 /\ pl.acc = 1

\* C26: with a predicate that never holds, constructing the filter range over a
\* finite vector comes to an end and leaves begin() equal to end(), and the
\* terminal operation over the range ends having yielded no element.
C26_NeverTrueTerminates ==
    /\ [](pin.pred = {} /\ pl.pc # "start"
          => pl.fbegin.m_base_iterator = pl.fend.m_base_iterator)
    /\ (pin.pred = {}) ~> /\ pl.pc = "done"
                          /\ pl.out = <<>> /\ pl.acc = pin.seed
                          /\ pl.f_calls = 0 /\ pl.combiner_calls = 0

\* a terminal operation finished over a vector of MaxLen elements, all of which
\* the predicate rejected when the filter range was constructed
C26_Witness ==
    /\ pin.pred = {} /\ Len(pin.c) = MaxLen /\ pl.pc = "done"
    /\ \A i \in 1..MaxLen : pl.pred_calls[i] >= 1
    /\ pl.fbegin.m_base_iterator = PEnd

(***************************************************************************)
(* optional::collapse on optional<optional<...optional<int>...>>            *)
(*                                                                         *)
(* An Option of nesting depth N is [engaged, val], val being an Option of  *)
(* depth N - 1, or an int for N = 1. The val of a disengaged Option does   *)
(* not exist; it is written as the disengaged Option of the depth below.   *)
(***************************************************************************)
Depths == 1..MaxDepth
RECURSIVE Disengaged(_)
Disengaged(N) == [engaged |-> FALSE, val |-> IF N > 1 THEN Disengaged(N - 1) ELSE 0]
\* the Options of nesting depth N
RECURSIVE Nested(_)
Nested(N) ==
    {Disengaged(N)} \cup
    {[engaged |-> TRUE, val |-> v] : v \in IF N > 1 THEN Nested(N - 1) ELSE Vals}

\* collapse that looks at the outermost level only
RECURSIVE collapse_outermost(_, _)
collapse_outermost(o, N) ==
    IF N > 1
    THEN IF o.engaged THEN [collapse_outermost(o.val, N - 1) EXCEPT !.engaged = TRUE]
         ELSE Nullopt
    ELSE o

\* optional<T>::collapse() &&, T of nesting depth N - 1
RECURSIVE collapse(_, _)
collapse(o, N) ==
    IF N > 1
    THEN value_or(if_set_returning(o, [inner \in Nested(N - 1) |-> collapse(inner, N - 1)]), Nullopt)
    ELSE o

ColStart(N, o) == [depth |-> N, o |-> o, done |-> FALSE, ret |-> Nullopt]

\* auto r = std::move(o).collapse();
Collapse ==
    /\ ~col.done
    /\ col' = [col EXCEPT !.done = TRUE, !.ret = collapse(col.o, col.depth)]
    /\ UNCHANGED notCol

InitCollapse == \E N \in Depths : \E o \in Nested(N) : col = ColStart(N, o)

IdleCollapse == col = ColStart(1, Nullopt)

NextCollapse == Collapse

\* the number of engaged levels of o, counted from the outermost
RECURSIVE engaged_levels(_, _)
engaged_levels(o, N) ==
    IF ~o.engaged THEN 0
    ELSE IF N > 1 THEN 1 + engaged_levels(o.val, N - 1) ELSE 1
\* the int at the bottom of a fully engaged o
RECURSIVE innermost(_, _)
innermost(o, N) == IF N > 1 THEN innermost(o.val, N - 1) ELSE o.val

\* C15: collapse() on an Option of any nesting depth returns an empty Option
\* when some level is disengaged, and an engaged Option of the innermost value
\* when every level is engaged.
C15_Collapse ==
    col.done
    => col.ret = IF engaged_levels(col.o, col.depth) = col.depth
                 THEN Engaged(innermost(col.o, col.depth))
                 ELSE Nullopt

\* a fully engaged Option of the deepest nesting was collapsed
C15_Witness ==
    /\ col.done /\ col.depth = MaxDepth
    /\ engaged_levels(col.o, col.depth) = col.depth
    /\ col.ret.engaged

\* an Option engaged at the outer level and disengaged below was collapsed
C15_WitnessInner ==
    /\ col.done /\ col.depth = 2
    /\ col.o.engaged /\ ~col.o.val.engaged
    /\ ~col.ret.engaged

(***************************************************************************)
(* critical_section<int>: threads calling enter and try_enter              *)
(*                                                                         *)
(* cs is the critical_section: m_mutex names the thread that holds the     *)
(* std::mutex, m_value is the guarded int; init and calls remember the     *)
(* value it was constructed with and how many functor bodies have          *)
(* finished. thr[t] is thread t's position in its current call. A thread   *)
(* steps one statement at a time, so every interleaving of the statements  *)
(* of different threads is a behaviour.                                    *)
(***************************************************************************)
CsThreads == {"t1", "t2"}
Unlocked == "unlocked"
Kinds == {"value", "void"}
Functors == {"double", "try_again"}

\* std::mutex::lock can return: nobody holds the mutex
lockable_always(m) == TRUE
lockable(m) == m = Unlocked

\* try_lock that succeeds for the thread that holds the mutex
try_to_lock_recursive(m, t) == m = Unlocked \/ m = t
\* std::unique_lock guard { m_mutex, std::try_to_lock }; guard.owns_lock()
try_to_lock(m, t) == m = Unlocked

ThreadIdle ==
    [pc |-> "idle", op |-> "none", kind |-> "void", functor |-> "double", outer |-> FALSE,
     owns |-> FALSE, before |-> Unlocked, arg |-> 0, copy |-> 0, f_calls |-> 0,
     ret |-> Nullopt, called |-> FALSE, n |-> 0]

CsStart(v) == [m_mutex |-> Unlocked, m_value |-> v, init |-> v, calls |-> 0]

\* the thread calls cs.enter(f) or cs.try_enter(f). f doubles the value
\* (int copy = i; copy *= 2; i = copy;), returning it when kind is "value";
\* enter's f may instead call try_enter on the section it is in.
Call(t) ==
    /\ thr[t].pc = "idle"
    /\ thr[t].n < MaxEnters
    /\ \E op \in {"enter", "try_enter"}, kind \in Kinds, functor \in Functors :
        /\ op = "try_enter" => functor = "double"
        /\ op = "enter" /\ functor = "double" => kind = "void"
        /\ thr' = [thr EXCEPT ![t] =
                      [ThreadIdle EXCEPT !.pc = "guard", !.op = op, !.kind = kind,
                                         !.functor = functor, !.n = thr[t].n]]
    /\ UNCHANGED <<cs, notCs>>

\* enter: std::unique_lock guard { m_mutex }; blocks while the mutex is held
Lock(t) ==
    /\ thr[t].pc = "guard"
    /\ thr[t].op = "enter"
    /\ lockable(cs.m_mutex)
    /\ cs' = [cs EXCEPT !.m_mutex = t]
    /\ thr' = [thr EXCEPT ![t] =
                  IF thr[t].functor = "double"
                  THEN [@ EXCEPT !.pc = "read", !.owns = TRUE]
                  ELSE [@ EXCEPT !.pc = "guard", !.op = "try_enter", !.functor = "double",
                                 !.outer = TRUE]]
    /\ UNCHANGED notCs

\* try_enter: std::unique_lock guard { m_mutex, std::try_to_lock };
TryLock(t) ==
    /\ thr[t].pc = "guard"
    /\ thr[t].op = "try_enter"
    /\ LET owns == try_to_lock(cs.m_mutex, t) IN
        /\ cs' = IF owns THEN [cs EXCEPT !.m_mutex = t] ELSE cs
        /\ thr' = [thr EXCEPT ![t] =
                      [@ EXCEPT !.owns = owns, !.before = cs.m_mutex,
                                !.pc = IF owns THEN "read" ELSE "return"]]
    /\ UNCHANGED notCs

\* f(m_value): int copy = i; copy *= 2;
Read(t) ==
    /\ thr[t].pc = "read"
    /\ thr' = [thr EXCEPT ![t] =
                  [@ EXCEPT !.arg = cs.m_value, !.copy = 2 * cs.m_value,
                            !.f_calls = @ + 1, !.pc = "write"]]
    /\ UNCHANGED <<cs, notCs>>

\* f(m_value): i = copy;
Write(t) ==
    /\ thr[t].pc = "write"
    /\ cs' = [cs EXCEPT !.m_value = thr[t].copy, !.calls = @ + 1]
    /\ thr' = [thr EXCEPT ![t] = [@ EXCEPT !.pc = "return"]]
    /\ UNCHANGED notCs

\* the return statement and guard's destructor
Return(t) ==
    /\ thr[t].pc = "return"
    /\ cs' = IF thr[t].owns THEN [cs EXCEPT !.m_mutex = Unlocked] ELSE cs
    /\ thr' = [thr EXCEPT ![t] =
                  [@ EXCEPT !.ret = IF thr[t].op = "try_enter" /\ thr[t].kind = "value"
                                       /\ thr[t].owns
                                    THEN Engaged(thr[t].copy) ELSE Nullopt,
                            !.called = thr[t].op = "try_enter" /\ thr[t].kind = "void"
                                       /\ thr[t].owns,
                            !.pc = IF thr[t].outer THEN "outer_return" ELSE "idle",
                            !.n = IF thr[t].outer THEN @ ELSE @ + 1]]
    /\ UNCHANGED notCs

\* the end of an enter whose functor called try_enter: guard's destructor
OuterReturn(t) ==
    /\ thr[t].pc = "outer_return"
    /\ cs' = [cs EXCEPT !.m_mutex = Unlocked]
    /\ thr' = [thr EXCEPT ![t] = [@ EXCEPT !.pc = "idle", !.outer = FALSE, !.n = @ + 1]]
    /\ UNCHANGED notCs

ThreadStep(t) ==
    \/ Call(t)
    \/ Lock(t)
    \/ TryLock(t)
    \/ Read(t)
    \/ Write(t)
    \/ Return(t)
    \/ OuterReturn(t)

InitSection ==
    /\ \E v \in Vals : cs = CsStart(v)
    /\ thr = [t \in CsThreads |-> ThreadIdle]

IdleSection ==
    /\ cs = CsStart(1)
    /\ thr = [t \in CsThreads |-> ThreadIdle]

NextSection == \E t \in CsThreads : ThreadStep(t)

\* thread t is inside a functor body that enter or try_enter called
InBody(t) == thr[t].pc \in {"read", "write"} \/ thr[t].outer

\* C16: functor bodies passed to enter and to a successful try_enter on one
\* critical_section never run concurrently, and nothing reads or modifies the
\* guarded value between a body's read and its write: when the body writes,
\* its copy is still twice the value, and the value is the initial one doubled
\* once per finished body.
C16_BodiesExclusive ==
    /\ \A t, u \in CsThreads : InBody(t) /\ InBody(u) => t = u
    /\ \A t \in CsThreads : InBody(t) => cs.m_mutex = t
    /\ \A t \in CsThreads : thr[t].pc = "write" => thr[t].copy = 2 * cs.m_value
    /\ cs.m_value = cs.init * 2 ^ cs.calls

\* one thread is between its read and its write while the other one waits to
\* enter, after an earlier body has finished
C16_Witness ==
    \E t, u \in CsThreads :
        /\ t # u
        /\ thr[t].pc = "write"
        /\ thr[u].pc = "guard" /\ thr[u].op = "enter"
        /\ cs.calls > 0

\* thread t is back from a try_enter
TryEnterReturned(t) == thr[t].op = "try_enter" /\ thr[t].pc \in {"idle", "outer_return"}

\* thread t is inside a try_enter
InTryEnter(t) == thr[t].op = "try_enter" /\ thr[t].pc \in {"guard", "read", "write", "return"}

\* C17: try_enter never blocks. On an entered section it does not call f and
\* returns a disengaged Option (f returns a value) or false (f returns
\* nothing); on a free section it calls f once with the guarded value and
\* returns an engaged Option of f's result, or true. The call leaves the lock
\* as it found it: a failed call never changes it, a successful one frees it.
C17_TryEnter ==
    [][/\ \A t \in CsThreads : InTryEnter(t) => ENABLED ThreadStep(t)
       /\ \A t \in CsThreads :
            TryEnterReturned(t)' =>
                IF thr'[t].before # Unlocked
                THEN /\ thr'[t].f_calls = 0
                     /\ thr'[t].ret = Nullopt
                     /\ ~thr'[t].called
                ELSE /\ thr'[t].f_calls = 1
                     /\ thr'[t].kind = "value" => thr'[t].ret = Engaged(2 * thr'[t].arg)
                     /\ thr'[t].kind = "void" => thr'[t].called
       /\ \A t \in CsThreads :
            InTryEnter(t) /\ thr'[t] # thr[t] =>
                /\ thr[t].pc = "read" => thr'[t].arg = cs.m_value
                /\ ~thr'[t].owns => cs'.m_mutex = cs.m_mutex
                /\ thr[t].pc = "return" /\ thr[t].owns => cs'.m_mutex = thr[t].before
      ]_vars

\* one thread's try_enter failed on a section another thread had entered, and
\* the other thread's try_enter succeeded and returned a value
C17_Witness ==
    \E t, u \in CsThreads :
        /\ TryEnterReturned(t) /\ thr[t].before = u /\ t # u /\ ~thr[t].ret.engaged
        /\ TryEnterReturned(u) /\ thr[u].before = Unlocked /\ thr[u].ret.engaged

\* a try_enter made from inside enter's functor, on the section the thread is
\* in, failed
C17_WitnessNested ==
    \E t \in CsThreads : thr[t].pc = "outer_return" /\ thr[t].before = t /\ ~thr[t].called

(***************************************************************************)
(* condition_variable<int>: notify and wait with an external condition     *)
(*                                                                         *)
(* The program is the one of tests/condition_variable.cpp: the thread      *)
(* wait_until_external_condition ("worker") and the thread that started it *)
(* ("main") hand the std::atomic external_condition from state to state.   *)
(* cv is the condition_variable and the atomic: m_mutex names the holder   *)
(* of the std::mutex, waiting is the set of threads blocked inside         *)
(* m_cv.wait(l). cvt[t] is thread t's position: which of its wait calls it *)
(* is in (stage) and where in it (pc).                                     *)
(***************************************************************************)
CvThreads == {"main", "worker"}
NotificationTypes == {"NOTIFY_ONE", "NOTIFY_ALL"}

\* the state a thread's wait_functor compares external_condition with
awaited(t, stage) ==
    IF t = "worker" THEN "THREAD_SHOULD_WAKE"
    ELSE IF stage = 1 THEN "THREAD_WAITING" ELSE "THREAD_FINISHED"

\* the state a thread's ready_functor exchanges into external_condition
posted(t) == IF t = "worker" THEN "THREAD_FINISHED" ELSE "THREAD_SHOULD_WAKE"

\* a notification that unblocks no thread
wakes_nobody(n, waiting) == {{}}
\* m_cv.notify_all() / m_cv.notify_one(): the sets of threads it may unblock
wakes(n, waiting) ==
    IF n = "NOTIFY_ALL" \/ waiting = {} THEN {waiting} ELSE {{t} : t \in waiting}

CvStart(n) ==
    [m_mutex |-> Unlocked, m_value |-> 1, waiting |-> {},
     external_condition |-> "THREAD_STARTING", n |-> n, required |-> TRUE]

CvtStart ==
    [t \in CvThreads |->
        [pc |-> IF t = "worker" THEN "exchange" ELSE "lock", stage |-> 1]]

CvGoto(t, pc) == [cvt EXCEPT ![t].pc = pc]

\* external_condition.exchange(state::THREAD_WAITING);
Exchange(t) ==
    /\ cvt[t].pc = "exchange"
    /\ cv' = [cv EXCEPT !.external_condition = "THREAD_WAITING"]
    /\ cvt' = CvGoto(t, "notify")
    /\ UNCHANGED notCv

\* s.notify(): after the exchange, or at the end of a ready_functor
Notify(t) ==
    /\ cvt[t].pc \in {"notify", "ready_notify"}
    /\ \E woken \in wakes(cv.n, cv.waiting) :
        /\ cv' = [cv EXCEPT !.waiting = @ \ woken]
        /\ cvt' = [u \in CvThreads |->
                      IF u = t
                      THEN [cvt[u] EXCEPT !.pc = IF cvt[t].pc = "notify" THEN "lock" ELSE "unlock"]
                      ELSE IF u \in woken THEN [cvt[u] EXCEPT !.pc = "relock"]
                      ELSE cvt[u]]
    /\ UNCHANGED notCv

\* wait: std::unique_lock l { m_mutex };
\* and m_cv.wait(l) taking the mutex again once it is unblocked
WaitLock(t) ==
    /\ cvt[t].pc \in {"lock", "relock"}
    /\ lockable(cv.m_mutex)
    /\ cv' = [cv EXCEPT !.m_mutex = t]
    /\ cvt' = CvGoto(t, "pred")
    /\ UNCHANGED notCv

\* m_cv.wait(l, pred): while (!pred()) ...
WaitPred(t) ==
    /\ cvt[t].pc = "pred"
    /\ cvt' = CvGoto(t, IF cv.external_condition = awaited(t, cvt[t].stage)
                        THEN "ready" ELSE "block")
    /\ UNCHANGED <<cv, notCv>>

\* m_cv.wait(l): releases the mutex and blocks, atomically
WaitBlock(t) ==
    /\ cvt[t].pc = "block"
    /\ cv' = [cv EXCEPT !.m_mutex = Unlocked, !.waiting = @ \cup {t}]
    /\ cvt' = CvGoto(t, "blocked")
    /\ UNCHANGED notCv

\* m_cv.wait(l) unblocks without a notify, as std::condition_variable may
SpuriousWake(t) ==
    /\ cvt[t].pc = "blocked"
    /\ t \in cv.waiting
    /\ cv' = [cv EXCEPT !.waiting = @ \ {t}]
    /\ cvt' = CvGoto(t, "relock")
    /\ UNCHANGED notCv

\* the ready_functor: REQUIRE(external_condition.load() == ...), then the
\* exchange, or wait_until_external_condition.join() in main's second wait
Ready(t) ==
    /\ cvt[t].pc = "ready"
    /\ IF t = "main" /\ cvt[t].stage = 2
       THEN /\ cvt["worker"].pc = "done"
            /\ cv' = [cv EXCEPT !.required =
                         @ /\ cv.external_condition = awaited(t, cvt[t].stage)]
            /\ cvt' = CvGoto(t, "unlock")
       ELSE /\ cv' = [cv EXCEPT !.required =
                         @ /\ cv.external_condition = awaited(t, cvt[t].stage),
                                !.external_condition = posted(t)]
            /\ cvt' = CvGoto(t, "ready_notify")
    /\ UNCHANGED notCv

\* wait returns: l's destructor
WaitReturn(t) ==
    /\ cvt[t].pc = "unlock"
    /\ cv' = [cv EXCEPT !.m_mutex = Unlocked]
    /\ cvt' = [cvt EXCEPT ![t] =
                  IF t = "main" /\ cvt[t].stage = 1 THEN [pc |-> "lock", stage |-> 2]
                  ELSE IF t = "main" THEN [@ EXCEPT !.pc = "inspect"]
                  ELSE [@ EXCEPT !.pc = "done"]]
    /\ UNCHANGED notCv

\* s.inspect([](const int& value) { REQUIRE(value == 1); });
Inspect(t) ==
    /\ cvt[t].pc = "inspect"
    /\ lockable(cv.m_mutex)
    /\ cv' = [cv EXCEPT !.required = @ /\ cv.m_value = 1]
    /\ cvt' = CvGoto(t, "done")
    /\ UNCHANGED notCv

\* the steps a running thread takes by itself
CvStep(t) ==
    \/ Exchange(t)
    \/ Notify(t)
    \/ WaitLock(t)
    \/ WaitPred(t)
    \/ WaitBlock(t)
    \/ Ready(t)
    \/ WaitReturn(t)
    \/ Inspect(t)

InitNotify ==
    /\ \E n \in NotificationTypes : cv = CvStart(n)
    /\ cvt = CvtStart

IdleNotify ==
    /\ cv = CvStart("NOTIFY_ALL")
    /\ cvt = [t \in CvThreads |-> [pc |-> "done", stage |-> 1]]

NextNotify == \E t \in CvThreads : CvStep(t) \/ SpuriousWake(t)

\* the scheduler runs every thread that can take a step, and a thread that
\* waits for the mutex gets it when it is released again and again; nothing
\* makes a blocked m_cv.wait(l) wake up spuriously
FairNotify ==
    \A t \in CvThreads :
        /\ WF_vars(CvStep(t))
        /\ SF_vars(WaitLock(t))
        /\ SF_vars(Inspect(t))

\* C18: the handshake THREAD_WAITING, THREAD_SHOULD_WAKE, THREAD_FINISHED
\* completes in every fairly scheduled interleaving: the worker's notify after
\* its unguarded change of external_condition makes main's wait run its ready
\* functor, and so on until main has returned from both waits.
C18_HandshakeCompletes == <>(cvt["main"].pc = "done")

\* the notify after the exchange finds nobody blocked, main blocks after it,
\* and the worker blocks too: nobody is left to notify
C18_LostWakeup ==
    /\ cv.waiting = CvThreads
    /\ cv.external_condition = "THREAD_WAITING"

\* once main's first ready functor has run, the handshake completes: from then
\* on external_condition changes only under the mutex
C18_CompletesOnceWoken ==
    (cv.external_condition = "THREAD_SHOULD_WAKE") ~> (cvt["main"].pc = "done")

\* the REQUIREs of the ready functors and of inspect hold
C18_RequiresHold == cv.required

(***************************************************************************)
(* cow<T>: a value held by value or by const reference                     *)
(*                                                                         *)
(* cows[i] is cow object i: m_value is a variant<T, reference_wrapper<const *)
(* T>>, index 0 holding val and index 1 holding ref, the address of one of *)
(* the caller's values in base. An address is <<"m_value", i>>, the        *)
(* storage inside cow i, or <<"base", a>>. obs is what the caller's last   *)
(* call was and what it returned.                                          *)
(***************************************************************************)
CowIds == {"c", "d"}

NoCow == [alive |-> FALSE, index |-> 0, val |-> 0, ref |-> "x"]

\* m_value.emplace<T>(value), and cow(T value)
emplace_value(v) == [alive |-> TRUE, index |-> 0, val |-> v, ref |-> "x"]
\* m_value.emplace<std::reference_wrapper<const T>>(ref), and cow(reference_wrapper)
emplace_ref(a) == [alive |-> TRUE, index |-> 1, val |-> 0, ref |-> a]

\* &c.get_const(): the visitor returns value, or value.get()
get_const(c, i) == IF c.index = 0 THEN <<"m_value", i>> ELSE <<"base", c.ref>>

\* what is stored at an address
stored(w, b, addr) == IF addr[1] = "m_value" THEN w[addr[2]].val ELSE b[addr[2]]

\* get_mutable that hands out the referenced value itself
get_mutable_in_place(c, b) == c
\* get_mutable(): the cow after the visitor has run
get_mutable(c, b) == IF c.index = 0 THEN c ELSE emplace_value(b[c.ref])

Observed(op, i, j, addr, v) == [op |-> op, id |-> i, src |-> j, addr |-> addr, v |-> v]

NoObs == Observed("none", "c", "c", <<"base", "x">>, 0)

\* cow<T> i { v };
CowConstructValue(i, v) ==
    /\ ~cows[i].alive
    /\ cows' = [cows EXCEPT ![i] = emplace_value(v)]
    /\ obs' = Observed("construct", i, i, get_const(cows'[i], i), v)
    /\ UNCHANGED <<base, notCow>>

\* cow<T> i { std::cref(a) };
CowConstructRef(i, a) ==
    /\ ~cows[i].alive
    /\ cows' = [cows EXCEPT ![i] = emplace_ref(a)]
    /\ obs' = Observed("construct", i, i, get_const(cows'[i], i), base[a])
    /\ UNCHANGED <<base, notCow>>

\* cow<T> i { j }; cow(const cow&) = default copies m_value, alternative by alternative
CowCopyConstruct(i, j) ==
    /\ ~cows[i].alive
    /\ cows[j].alive
    /\ cows' = [cows EXCEPT ![i] = cows[j]]
    /\ obs' = Observed("copy", i, j, get_const(cows'[i], i), stored(cows', base, get_const(cows'[i], i)))
    /\ UNCHANGED <<base, notCow>>

\* i = j; operator=(const cow&) = default
CowCopyAssign(i, j) ==
    /\ cows[i].alive
    /\ cows[j].alive
    /\ i # j
    /\ cows' = [cows EXCEPT ![i] = cows[j]]
    /\ obs' = Observed("copy", i, j, get_const(cows'[i], i), stored(cows', base, get_const(cows'[i], i)))
    /\ UNCHANGED <<base, notCow>>

\* i = v; operator=(T value)
CowAssignValue(i, v) ==
    /\ cows[i].alive
    /\ cows' = [cows EXCEPT ![i] = emplace_value(v)]
    /\ obs' = Observed("assign", i, i, get_const(cows'[i], i), v)
    /\ UNCHANGED <<base, notCow>>

\* i = std::cref(a); operator=(reference_wrapper)
CowAssignRef(i, a) ==
    /\ cows[i].alive
    /\ cows' = [cows EXCEPT ![i] = emplace_ref(a)]
    /\ obs' = Observed("assign", i, i, get_const(cows'[i], i), base[a])
    /\ UNCHANGED <<base, notCow>>

\* &i.get_const()
CowGetConst(i) ==
    /\ cows[i].alive
    /\ obs' = Observed("get_const", i, i, get_const(cows[i], i), stored(cows, base, get_const(cows[i], i)))
    /\ UNCHANGED <<cows, base, notCow>>

\* T& r = i.get_mutable();
CowGetMutable(i) ==
    /\ cows[i].alive
    /\ cows' = [cows EXCEPT ![i] = get_mutable(cows[i], base)]
    /\ obs' = Observed("get_mutable", i, i, get_const(cows'[i], i),
                       stored(cows', base, get_const(cows'[i], i)))
    /\ UNCHANGED <<base, notCow>>

\* r = v; the caller writes through the reference get_mutable has just returned
CowWriteThrough(i, v) ==
    /\ obs.op = "get_mutable"
    /\ obs.id = i
    /\ IF obs.addr[1] = "m_value"
       THEN /\ cows' = [cows EXCEPT ![obs.addr[2]].val = v]
            /\ base' = base
       ELSE /\ base' = [base EXCEPT ![obs.addr[2]] = v]
            /\ cows' = cows
    /\ obs' = Observed("write", i, i, obs.addr, v)
    /\ UNCHANGED notCow

\* a = v; the caller changes one of its own values
CowBaseWrite(a, v) ==
    /\ base[a] # v
    /\ base' = [base EXCEPT ![a] = v]
    /\ obs' = Observed("base_write", obs.id, obs.id, <<"base", a>>, v)
    /\ UNCHANGED <<cows, notCow>>

InitCow ==
    /\ base \in [Addrs -> Vals]
    /\ cows = [i \in CowIds |-> NoCow]
    /\ obs = NoObs

IdleCow ==
    /\ base = [a \in Addrs |-> 1]
    /\ cows = [i \in CowIds |-> NoCow]
    /\ obs = NoObs

NextCow ==
    \/ \E i \in CowIds, v \in Vals : CowConstructValue(i, v)
    \/ \E i \in CowIds, a \in Addrs : CowConstructRef(i, a)
    \/ \E i, j \in CowIds : CowCopyConstruct(i, j)
    \/ \E i, j \in CowIds : CowCopyAssign(i, j)
    \/ \E i \in CowIds, v \in Vals : CowAssignValue(i, v)
    \/ \E i \in CowIds, a \in Addrs : CowAssignRef(i, a)
    \/ \E i \in CowIds : CowGetConst(i)
    \/ \E i \in CowIds : CowGetMutable(i)
    \/ \E i \in CowIds, v \in Vals : CowWriteThrough(i, v)
    \/ \E a \in Addrs, v \in Vals : CowBaseWrite(a, v)

\* C19: get_mutable() on a cow that references one of the caller's values
\* copies that value into the cow, so that the address get_const() returns
\* changes, and a write through the returned reference changes the cow's value
\* and never the caller's; on a cow that owns its value it copies nothing and
\* the address stays; get_const() changes nothing.
C19_CopyOnWrite ==
    [][/\ obs'.op = "get_mutable" =>
            LET i == obs'.id IN
            /\ base' = base
            /\ obs'.addr = <<"m_value", i>>
            /\ get_const(cows'[i], i) = obs'.addr
            /\ IF cows[i].index = 1
               THEN /\ get_const(cows'[i], i) # get_const(cows[i], i)
                    /\ cows'[i].val = base[cows[i].ref]
               ELSE /\ get_const(cows'[i], i) = get_const(cows[i], i)
                    /\ cows' = cows
       /\ obs'.op = "write" =>
            /\ base' = base
            /\ stored(cows', base', get_const(cows'[obs'.id], obs'.id)) = obs'.v
       /\ obs'.op = "get_const" =>
            /\ cows' = cows
            /\ base' = base
            /\ obs'.addr = get_const(cows[obs'.id], obs'.id)
      ]_vars

\* a write went through get_mutable of a cow that referenced a caller's value
\* until then, and the caller's value now differs from the cow's
C19_Witness ==
    \E i \in CowIds, a \in Addrs :
        /\ obs.op = "write" /\ obs.id = i
        /\ cows[i].index = 0
        /\ cows[i].val # base[a]
        /\ \E j \in CowIds : j # i /\ cows[j].alive /\ cows[j].index = 1 /\ cows[j].ref = a

\* C20: a copy of a cow, by copy construction or copy assignment, references
\* the value of the cow it was copied from: both return the same address from
\* get_const(), whether the source owns its value or references one.
C20_CopiesReference ==
    obs.op = "copy" => get_const(cows[obs.id], obs.id) = get_const(cows[obs.src], obs.src)

\* a copy of a cow that references a caller's value references it too
C20_CopyOfReferencing ==
    obs.op = "copy" /\ cows[obs.src].index = 1
        => get_const(cows[obs.id], obs.id) = get_const(cows[obs.src], obs.src)

\* a copy of a cow that owns its value owns an equal value of its own
C20_CopyOfOwning ==
    obs.op = "copy" /\ cows[obs.src].index = 0
        => /\ get_const(cows[obs.id], obs.id) = <<"m_value", obs.id>>
           /\ cows[obs.id].val = cows[obs.src].val

\* a cow that owns its value has been copied
C20_WitnessOwning == obs.op = "copy" /\ cows[obs.src].index = 0

(***************************************************************************)
(* safet::finally<Functor>, the functor being [&]() { ++call_count; }.     *)
(* Three objects f, f_copy and f_move live in one scope; each may be       *)
(* constructed from the functor, copy constructed or move constructed from *)
(* another, and destroyed on its own or when the scope is left by one of   *)
(* the return statements of complicated_exit_conditions.                   *)
(***************************************************************************)
FinIds == {"f", "f_copy", "f_move"}
\* the return statements of complicated_exit_conditions
ExitPaths == {"arg0", "arg1", "arg2", "arg3", "other"}
\* storage that holds no finally object yet
NoFinally == [alive |-> FALSE, born |-> FALSE, m_finally |-> FALSE,
              moved_from |-> FALSE, from_empty |-> FALSE, how |-> "none", calls |-> 0]
FinStart == [obj |-> [i \in FinIds |-> NoFinally], call_count |-> 0, exit |-> "none"]

\* a move constructor that leaves the source's functor in place
move_source_keeps(m_finally) == m_finally
\* finally(finally&& move): move.m_finally = std::nullopt
move_source(m_finally) == FALSE
\* ~finally: how often std::move(m_finally).if_set(...) invokes the functor
finally_dtor(o) == IF o.m_finally THEN 1 ELSE 0

\* finally i { [&]() { ++call_count; } };
FinConstruct(i) ==
    /\ fin.exit = "none" /\ ~fin.obj[i].born
    /\ fin' = [fin EXCEPT !.obj[i] = [NoFinally EXCEPT !.alive = TRUE, !.born = TRUE,
                                                        !.how = "functor",
                                                        !.m_finally = TRUE]]
    /\ UNCHANGED notFin

\* finally i { j };
FinCopyConstruct(i, j) ==
    /\ fin.exit = "none" /\ ~fin.obj[i].born /\ fin.obj[j].alive
    /\ fin' = [fin EXCEPT !.obj[i] = [NoFinally EXCEPT !.alive = TRUE, !.born = TRUE,
                                                        !.how = "copy",
                                                        !.m_finally = fin.obj[j].m_finally,
                                                        !.from_empty = ~fin.obj[j].m_finally]]
    /\ UNCHANGED notFin

\* finally i { std::move(j) };
FinMoveConstruct(i, j) ==
    /\ fin.exit = "none" /\ ~fin.obj[i].born /\ fin.obj[j].alive
    /\ fin' = [fin EXCEPT !.obj[i] = [NoFinally EXCEPT !.alive = TRUE, !.born = TRUE,
                                                        !.how = "move",
                                                        !.m_finally = fin.obj[j].m_finally,
                                                        !.from_empty = ~fin.obj[j].m_finally],
                          !.obj[j].m_finally = move_source(@),
                          !.obj[j].moved_from = TRUE]
    /\ UNCHANGED notFin

\* the object after its destructor has run
destroyed(o) == [o EXCEPT !.alive = FALSE, !.calls = @ + finally_dtor(o)]
RECURSIVE FinInvocations(_)
\* the functor invocations made by destroying the objects of S
FinInvocations(S) ==
    IF S = {} THEN 0
    ELSE LET i == CHOOSE i \in S : TRUE
         IN  finally_dtor(fin.obj[i]) + FinInvocations(S \ {i})

\* i leaves its own block: ~finally
FinDtor(i) ==
    /\ fin.exit = "none" /\ fin.obj[i].alive
    /\ fin' = [fin EXCEPT !.obj[i] = destroyed(@),
                          !.call_count = @ + finally_dtor(fin.obj[i])]
    /\ UNCHANGED notFin

\* one of the return statements is reached: every object of the scope is destroyed
FinReturn(path) ==
    /\ fin.exit = "none" /\ \E i \in FinIds : fin.obj[i].alive
    /\ fin' = [fin EXCEPT !.obj = [i \in FinIds |-> IF fin.obj[i].alive
                                                     THEN destroyed(fin.obj[i])
                                                     ELSE fin.obj[i]],
                          !.call_count = @ + FinInvocations({i \in FinIds : fin.obj[i].alive}),
                          !.exit = path]
    /\ UNCHANGED notFin

InitFinally == fin = FinStart

IdleFinally == fin = FinStart

NextFinally ==
    \/ \E i \in FinIds : FinConstruct(i)
    \/ \E i \in FinIds, j \in FinIds : FinCopyConstruct(i, j)
    \/ \E i \in FinIds, j \in FinIds : FinMoveConstruct(i, j)
    \/ \E i \in FinIds : FinDtor(i)
    \/ \E path \in ExitPaths : FinReturn(path)

\* i was constructed and has been destroyed
FinGone(i) == fin.obj[i].born /\ ~fin.obj[i].alive

\* C21 as stated: a finally invokes its functor once, at its destruction, on
\* every exit path, unless it was moved from, and then it invokes nothing; the
\* invocations made in all equal the destroyed objects that were not moved from.
C21_OncePerNotMovedFrom ==
    /\ \A i \in FinIds :
          /\ fin.obj[i].alive => fin.obj[i].calls = 0
          /\ FinGone(i) => fin.obj[i].calls = IF fin.obj[i].moved_from THEN 0 ELSE 1
    /\ fin.call_count = Cardinality({i \in FinIds : FinGone(i) /\ ~fin.obj[i].moved_from})

\* C21, amended: a finally invokes its functor once, at its destruction, on
\* every exit path, unless it was moved from or was copy or move constructed
\* from an object that held no functor, and then it invokes nothing; the
\* invocations made in all equal the destroyed objects that were neither.
C21_OncePerHolder ==
    /\ \A i \in FinIds :
          /\ fin.obj[i].alive => /\ fin.obj[i].calls = 0
                                 /\ fin.obj[i].m_finally
                                    <=> ~fin.obj[i].moved_from /\ ~fin.obj[i].from_empty
          /\ FinGone(i) => fin.obj[i].calls = IF fin.obj[i].moved_from \/ fin.obj[i].from_empty
                                              THEN 0 ELSE 1
    /\ fin.call_count = Cardinality({i \in FinIds : /\ FinGone(i)
                                                     /\ ~fin.obj[i].moved_from
                                                     /\ ~fin.obj[i].from_empty})

\* f was copied to f_copy and moved to f_move, and the scope was left: two invocations
C21_Witness ==
    /\ fin.exit # "none" /\ \A i \in FinIds : FinGone(i)
    /\ fin.obj["f"].moved_from
    /\ fin.obj["f_copy"].how = "copy" /\ fin.obj["f_move"].how = "move"
    /\ \A i \in {"f_copy", "f_move"} : ~fin.obj[i].moved_from /\ ~fin.obj[i].from_empty
    /\ fin.call_count = 2

\* a copy of a moved-from object was destroyed
C21_WitnessCopyOfEmpty ==
    \E i \in FinIds : FinGone(i) /\ fin.obj[i].from_empty /\ ~fin.obj[i].moved_from

(***************************************************************************)
(* filtered_iterator, mapped_iterator and joined_iterator objects handled  *)
(* by a caller: "it" starts at the range's begin, "copy" is a copy of it   *)
(* or what the last it++ returned.                                         *)
(*                                                                         *)
(* The ranges are over the vectors c and d (d is the second range of a     *)
(* join). A position is an address: c's elements are at 1..Len(c), c.end() *)
(* is Len(c) + 1, and d's elements follow from Len(c) + 2. The adaptor's   *)
(* instantiation is given by three facts about its value cache: whether    *)
(* operator* returns by value (reference is not an lvalue reference) and   *)
(* so moves out of the cache, whether the value type's move constructor    *)
(* changes its source, and whether the cache is the one that keeps the     *)
(* value in a shared heap cell. A moved-from value reads as 0.             *)
(***************************************************************************)
IterKinds == {"filtered", "mapped", "joined"}
IterIds == {"it", "copy"}
c_end == Len(itin.c) + 1
d_begin == c_end + 1
d_end == d_begin + Len(itin.d)
\* the position holds an element: it may be dereferenced and incremented
holds_element(p) == p \in 1..Len(itin.c) \/ p \in d_begin..(d_end - 1)
element(p) == IF p <= Len(itin.c) THEN itin.c[p] ELSE itin.d[p - c_end]
\* what the adaptor computes for position p: m_mapper(*m_base_iterator), or *m_base_iterator
base_value(p) == IF itin.kind = "mapped" THEN Mapper(element(p)) ELSE element(p)

\* an adaptor iterator as its constructor's member initialisers leave it
adaptor(pos, first_range_end) ==
    [alive |-> TRUE, m_base_iterator |-> pos, m_base_end_iterator |-> c_end,
     m_first_range_end |-> first_range_end, m_second_range_begin |-> d_begin,
     m_last_value |-> NoValue, derefs |-> 0, ret |-> 0]
NoAdaptor == [adaptor(1, [engaged |-> FALSE, pos |-> 1]) EXCEPT !.alive = FALSE]

\* skip_invalid_items that leaves the position where it is
skip_nothing(it) == it
\* filtered_iterator::skip_invalid_items
RECURSIVE skip_invalid(_)
skip_invalid(it) ==
    IF it.m_base_iterator # it.m_base_end_iterator
    THEN LET m == emplace(it.m_last_value, element(it.m_base_iterator))
         IN  IF m.val \in itin.pred
             THEN [it EXCEPT !.m_last_value = m]
             ELSE skip_invalid([it EXCEPT !.m_last_value = m,
                                          !.m_base_iterator = @ + 1])
    ELSE it
\* the positions m_filter is invoked on when skip_invalid_items runs on it
evaluated(it) ==
    {p \in it.m_base_iterator..(it.m_base_end_iterator - 1) :
        p <= skip_invalid(it).m_base_iterator}

\* joined_iterator::reconcile
joined_reconcile(it) ==
    LET c == [it EXCEPT !.m_last_value = clear(@)]
    IN  IF c.m_first_range_end.engaged /\ c.m_base_iterator = c.m_first_range_end.pos
        THEN [c EXCEPT !.m_base_iterator = c.m_second_range_begin,
                       !.m_first_range_end.engaged = FALSE]
        ELSE c

\* the adaptor's constructor: only filtered_iterator's has a body
constructed(pos, first_range_end) ==
    IF itin.kind = "filtered" THEN skip_invalid(adaptor(pos, first_range_end))
    ELSE adaptor(pos, first_range_end)
\* what operator++ does after it moved m_base_iterator
settle(it) ==
    CASE itin.kind = "filtered" -> skip_invalid(it)
      [] itin.kind = "mapped" -> [it EXCEPT !.m_last_value = clear(@)]
      [] itin.kind = "joined" -> joined_reconcile(it)
\* operator++(): ++m_base_iterator and the above
advanced(it) ==
    [settle([it EXCEPT !.m_base_iterator = @ + 1]) EXCEPT !.derefs = 0, !.ret = 0]

\* std::move(cached value) constructing operator*'s result: what is left in the cache
move_out(x) == IF itin.by_value /\ itin.moves THEN 0 ELSE x
\* operator*: get_or_instantiate, and the result taken from the cached value
dereferenced(it) ==
    LET m == get_or_instantiate(it.m_last_value, base_value(it.m_base_iterator))
    IN  [it EXCEPT !.m_last_value = [m EXCEPT !.val = move_out(m.val)],
                   !.ret = m.val,
                   !.derefs = @ + 1]
\* m_filter's invocation counts after skip_invalid_items ran on it
evaluations(calls, it) ==
    [p \in DOMAIN calls |-> IF itin.kind = "filtered" /\ p \in evaluated(it)
                            THEN calls[p] + 1 ELSE calls[p]]

IterStart ==
    [obj |-> [id \in IterIds |-> NoAdaptor], linked |-> FALSE,
     pred_calls |-> [p \in 1..Len(itin.c) |-> 0], used |-> {},
     op |-> [name |-> "none", id |-> "it"]]

\* auto it = r.begin(), r the filter, map or join range (its m_begin was
\* constructed by range::filter, range::map or range::join)
IterBegin ==
    /\ ~its.obj["it"].alive
    /\ its' = [its EXCEPT !.obj["it"] = constructed(1, Marker(c_end)),
                          !.pred_calls = evaluations(@, adaptor(1, Marker(c_end))),
                          !.op = [name |-> "begin", id |-> "it"]]
    /\ UNCHANGED <<itin, notIter>>

\* auto copy = it: the defaulted copy constructor
IterCopy ==
    /\ its.obj["it"].alive /\ ~its.obj["copy"].alive
    /\ its' = [its EXCEPT !.obj["copy"] = [its.obj["it"] EXCEPT !.derefs = 0, !.ret = 0],
                          !.linked = itin.shared /\ its.obj["it"].m_last_value.engaged,
                          !.op = [name |-> "copy", id |-> "copy"]]
    /\ UNCHANGED <<itin, notIter>>

other(id) == IF id = "it" THEN "copy" ELSE "it"

\* *id: operator*
IterDeref(id) ==
    /\ its.obj[id].alive /\ holds_element(its.obj[id].m_base_iterator)
    /\ its.obj[id].derefs < MaxDerefs
    /\ LET o == dereferenced(its.obj[id])
       IN  its' = [its EXCEPT !.obj[id] = o,
                              !.obj[other(id)].m_last_value =
                                  IF its.linked THEN o.m_last_value ELSE @,
                              !.op = [name |-> "deref", id |-> id]]
    /\ UNCHANGED <<itin, notIter>>

\* ++id: operator++()
IterPreIncr(id) ==
    /\ its.obj[id].alive /\ holds_element(its.obj[id].m_base_iterator)
    /\ LET moved == [its.obj[id] EXCEPT !.m_base_iterator = @ + 1]
       IN  its' = [its EXCEPT !.obj[id] = advanced(its.obj[id]),
                              !.pred_calls = evaluations(@, moved),
                              !.linked = /\ @ /\ itin.kind = "filtered"
                                         /\ evaluated(moved) = {},
                              !.used = @ \cup {IF id = "it" THEN "pre" ELSE "copy_moved"},
                              !.op = [name |-> "pre", id |-> id]]
    /\ UNCHANGED <<itin, notIter>>

\* copy = it++: operator++(int), which constructs the iterator it returns at
\* the old position and then moves on
IterPostIncr ==
    /\ its.obj["it"].alive /\ holds_element(its.obj["it"].m_base_iterator)
    /\ LET old == adaptor(its.obj["it"].m_base_iterator, its.obj["it"].m_first_range_end)
           moved == [its.obj["it"] EXCEPT !.m_base_iterator = @ + 1]
       IN  its' = [its EXCEPT !.obj["copy"] = constructed(old.m_base_iterator,
                                                          old.m_first_range_end),
                              !.obj["it"] = advanced(its.obj["it"]),
                              !.pred_calls = evaluations(evaluations(@, old), moved),
                              !.linked = FALSE,
                              !.used = @ \cup {"post"},
                              !.op = [name |-> "post", id |-> "it"]]
    /\ UNCHANGED <<itin, notIter>>

\* one adaptor over vectors of at most MaxLen elements in all; a map returns by
\* value, only a filter has a predicate, only a join has a second range, and
\* whether a move changes its source matters only when operator* moves
InitIter ==
    /\ itin \in [kind : IterKinds, c : Seqs, d : Seqs, pred : Preds,
                 by_value : BOOLEAN, moves : BOOLEAN, shared : BOOLEAN]
    /\ itin.kind = "mapped" => itin.by_value
    /\ itin.kind # "filtered" => itin.pred = Vals
    /\ itin.kind # "joined" => itin.d = <<>>
    /\ Len(itin.c) + Len(itin.d) <= MaxLen
    /\ ~itin.by_value => ~itin.moves
    /\ its = IterStart

IdleIter ==
    /\ itin = [kind |-> "mapped", c |-> <<1>>, d |-> <<>>, pred |-> Vals,
               by_value |-> TRUE, moves |-> FALSE, shared |-> FALSE]
    /\ its = IterStart

NextIter ==
    \/ IterBegin
    \/ IterCopy
    \/ \E id \in IterIds : IterDeref(id)
    \/ \E id \in IterIds : IterPreIncr(id)
    \/ IterPostIncr

(***************************************************************************)
(* Claims about the adaptor iterators                                      *)
(***************************************************************************)
\* C22: a filtered iterator is never past the end, and it is at the end or on
\* an element the predicate holds for: after its construction and after every
\* pre-increment and post-increment.
C22_AtEndOrOnMatch ==
    itin.kind = "filtered"
    => \A id \in IterIds :
          its.obj[id].alive
          => /\ its.obj[id].m_base_iterator \in 1..c_end
             /\ its.obj[id].m_base_iterator # c_end
                => element(its.obj[id].m_base_iterator) \in itin.pred

\* it++ on the first element skipped the second, which the predicate rejects,
\* and reached the end; the iterator it returned sits on the first element
C22_Witness ==
    /\ itin.kind = "filtered" /\ Len(itin.c) = 2
    /\ itin.c[1] \in itin.pred /\ itin.c[2] \notin itin.pred
    /\ its.op.name = "post" /\ its.pred_calls[2] = 1
    /\ its.obj["it"].m_base_iterator = c_end
    /\ its.obj["copy"].m_base_iterator = 1

\* C23: after any increments, dereferences and copies, what a dereference
\* returned is the value of the iterator's current position.
C23_CurrentValue ==
    \A id \in IterIds :
        (its.obj[id].alive /\ its.obj[id].derefs > 0)
        => its.obj[id].ret = base_value(its.obj[id].m_base_iterator)

\* C23 where moving a value leaves its source as it was
C23_WhenMoveCopies == ~itin.moves => C23_CurrentValue

\* what a dereference returned is the current position's value or a moved-from
\* value, never the value of another position
C23_NeverStale ==
    \A id \in IterIds :
        (its.obj[id].alive /\ its.obj[id].derefs > 0)
        => its.obj[id].ret \in {base_value(its.obj[id].m_base_iterator), 0}

\* an iterator over two different elements was dereferenced at the first,
\* incremented and dereferenced at the second
C23_WitnessAdvanced ==
    /\ Len(itin.c) = 2 /\ itin.c[1] # itin.c[2] /\ itin.pred = Vals
    /\ its.obj["it"].m_base_iterator = 2 /\ its.obj["it"].derefs = 1
    /\ its.obj["it"].ret = base_value(2)

\* C25: while "it" walks a filter range from begin() towards end(), the
\* predicate has been evaluated once for every base position up to the
\* iterator's and for no other, however often the iterator was dereferenced.
C25_OncePerPosition ==
    (itin.kind = "filtered" /\ its.obj["it"].alive /\ "copy_moved" \notin its.used)
    => \A p \in 1..Len(itin.c) :
          its.pred_calls[p] = IF p <= its.obj["it"].m_base_iterator THEN 1 ELSE 0

\* C25 for a walk that uses operator++() only
C25_PreIncrement == "post" \notin its.used => C25_OncePerPosition

\* a walk by ++it over two elements reached the end, with two dereferences on the way
C25_WitnessPreIncrement ==
    /\ itin.kind = "filtered" /\ Len(itin.c) = 2 /\ itin.c[2] \in itin.pred
    /\ its.used = {"pre"} /\ its.obj["it"].m_base_iterator = c_end
    /\ its.op.name = "pre"

\* the step is a dereference of id, which was dereferenced at its position before
DerefAgain(id) ==
    /\ its'.op = [name |-> "deref", id |-> id]
    /\ its.obj[id].derefs >= 1 /\ its'.obj[id].derefs = its.obj[id].derefs + 1

\* C27: dereferencing an iterator again without incrementing it returns a value
\* equal to the one the dereference before it returned.
C27_RepeatedDerefEqual ==
    [][\A id \in IterIds : DerefAgain(id) => its'.obj[id].ret = its.obj[id].ret]_vars

\* C27 where moving a value leaves its source as it was
C27_WhenMoveCopies ==
    [][~itin.moves
       => \A id \in IterIds : DerefAgain(id) => its'.obj[id].ret = its.obj[id].ret]_vars

\* an iterator was dereferenced twice at one position
C27_WitnessTwice ==
    /\ itin.by_value /\ ~itin.moves
    /\ its.obj["it"].alive /\ its.obj["it"].derefs = 2

\* the value operator* would return for the iterator o
would_return(o) == get_or_instantiate(o.m_last_value, base_value(o.m_base_iterator)).val

\* C30: with the shared-cell cache, dereferencing or pre-incrementing one of two
\* copies leaves unchanged what the other copy returns when dereferenced.
C30_CopiesIndependent ==
    [][\A id \in IterIds :
          (/\ itin.shared
           /\ its'.op.name \in {"deref", "pre"} /\ its'.op.id = other(id)
           /\ its # its'
           /\ its.obj[id].alive /\ holds_element(its.obj[id].m_base_iterator))
          => would_return(its'.obj[id]) = would_return(its.obj[id])]_vars

\* C30 where moving a value leaves its source as it was
C30_WhenMoveCopies ==
    [][~itin.moves
       => \A id \in IterIds :
             (/\ itin.shared
              /\ its'.op.name \in {"deref", "pre"} /\ its'.op.id = other(id)
              /\ its # its'
              /\ its.obj[id].alive /\ holds_element(its.obj[id].m_base_iterator))
             => would_return(its'.obj[id]) = would_return(its.obj[id])]_vars

\* two copies share a populated cell and one of them was dereferenced
C30_WitnessShared ==
    /\ itin.shared /\ its.linked /\ its.op.name = "deref"
    /\ \A id \in IterIds : its.obj[id].alive

(***************************************************************************)
(* safet::strong_ptr<T>                                                    *)
(*                                                                         *)
(* sp.obj[i] is the strong_ptr object i: whether it is constructed, and    *)
(* its m_ptr, the index in sp.heap of the Implementation it points to, or  *)
(* Null. sp.heap[p] is an Implementation: its m_rc and how often it was    *)
(* deleted. m_rc is a std::atomic<uint64_t>; its value is written as the   *)
(* representative nearest to 0, so that 0 - 1, which is 2^64 - 1, reads    *)
(* as -1. Every operation is one step; the steps of several threads        *)
(* interleave. An operation that reads or writes a deleted Implementation, *)
(* and an assignment operator whose missing return statement the build     *)
(* does not survive, sets sp.ub, and the run is not followed further.      *)
(***************************************************************************)
StrongIds == {"p", "q", "r"}
Null == 0
NoStrong == [alive |-> FALSE, m_ptr |-> Null]
SpStart == [obj |-> [i \in StrongIds |-> NoStrong], heap |-> <<>>, ub |-> FALSE]

\* Implementation(Params&&... params): m_value(...), m_rc(0)
Implementation == [m_rc |-> 0, deleted |-> 0]

\* the Implementation that ptr points to was deleted before
dangling(s, ptr) == ptr # Null /\ s.heap[ptr].deleted > 0

\* strong_ptr::clean_value on object i
clean_value(s, i) ==
    LET ptr == s.obj[i].m_ptr
    IN  IF ptr = Null THEN s
        ELSE IF dangling(s, ptr) THEN [s EXCEPT !.ub = TRUE]
        ELSE [s EXCEPT !.heap[ptr].m_rc = @ - 1,
                       !.heap[ptr].deleted = IF s.heap[ptr].m_rc = 1 THEN @ + 1 ELSE @,
                       !.obj[i].m_ptr = Null]

\* if (m_ptr) ++m_ptr->m_rc on object i
increment(s, i) ==
    LET ptr == s.obj[i].m_ptr
    IN  IF ptr = Null THEN s
        ELSE IF dangling(s, ptr) THEN [s EXCEPT !.ub = TRUE]
        ELSE [s EXCEPT !.heap[ptr].m_rc = @ + 1]

\* m_ptr = new Implementation{...} on object i
allocate(s, i) ==
    [s EXCEPT !.heap = Append(@, Implementation), !.obj[i].m_ptr = Len(s.heap) + 1]

\* strong_ptr<T> i;
StrongDefault(i) ==
    /\ ~sp.ub /\ ~sp.obj[i].alive
    /\ sp' = [sp EXCEPT !.obj[i] = [alive |-> TRUE, m_ptr |-> Null]]
    /\ UNCHANGED notStrong

\* strong_ptr<T> i { params... };
StrongConstruct(i) ==
    /\ ~sp.ub /\ ~sp.obj[i].alive /\ Len(sp.heap) < MaxPayloads
    /\ sp' = allocate([sp EXCEPT !.obj[i].alive = TRUE], i)
    /\ UNCHANGED notStrong

\* strong_ptr<T> i { j };
StrongCopyConstruct(i, j) ==
    /\ ~sp.ub /\ ~sp.obj[i].alive /\ sp.obj[j].alive
    /\ sp' = increment([sp EXCEPT !.obj[i] = [alive |-> TRUE, m_ptr |-> sp.obj[j].m_ptr]], i)
    /\ UNCHANGED notStrong

\* strong_ptr<T> i { std::move(j) };
StrongMoveConstruct(i, j) ==
    /\ ~sp.ub /\ ~sp.obj[i].alive /\ sp.obj[j].alive
    /\ sp' = [sp EXCEPT !.obj[i] = [alive |-> TRUE, m_ptr |-> sp.obj[j].m_ptr],
                        !.obj[j].m_ptr = Null]
    /\ UNCHANGED notStrong

\* i = j (j may be i): the function flows off its end without a return statement
StrongCopyAssign(i, j) ==
    /\ ~sp.ub /\ sp.obj[i].alive /\ sp.obj[j].alive
    /\ LET cleaned == clean_value(sp, i)
           done == increment([cleaned EXCEPT !.obj[i].m_ptr = cleaned.obj[j].m_ptr], i)
       IN  \E survives \in BOOLEAN :
              sp' = IF cleaned.ub THEN cleaned
                    ELSE IF survives THEN done ELSE [done EXCEPT !.ub = TRUE]
    /\ UNCHANGED notStrong

\* i = std::move(j) (j may be i): no return statement either
StrongMoveAssign(i, j) ==
    /\ ~sp.ub /\ sp.obj[i].alive /\ sp.obj[j].alive
    /\ LET cleaned == clean_value(sp, i)
           done == [cleaned EXCEPT !.obj[i].m_ptr = cleaned.obj[j].m_ptr,
                                   !.obj[j].m_ptr = Null]
       IN  \E survives \in BOOLEAN :
              sp' = IF cleaned.ub THEN cleaned
                    ELSE IF survives THEN done ELSE [done EXCEPT !.ub = TRUE]
    /\ UNCHANGED notStrong

\* i.emplace(params...)
StrongEmplace(i) ==
    /\ ~sp.ub /\ sp.obj[i].alive /\ Len(sp.heap) < MaxPayloads
    /\ LET cleaned == clean_value(sp, i)
       IN  sp' = IF cleaned.ub THEN cleaned ELSE allocate(cleaned, i)
    /\ UNCHANGED notStrong

\* i.clear()
StrongClear(i) ==
    /\ ~sp.ub /\ sp.obj[i].alive
    /\ sp' = clean_value(sp, i)
    /\ UNCHANGED notStrong

\* i goes out of scope: ~strong_ptr
StrongDtor(i) ==
    /\ ~sp.ub /\ sp.obj[i].alive
    /\ sp' = [clean_value(sp, i) EXCEPT !.obj[i] = NoStrong]
    /\ UNCHANGED notStrong

InitStrong == sp = SpStart

IdleStrong == sp = SpStart

NextStrong ==
    \/ \E i \in StrongIds : StrongDefault(i)
    \/ \E i \in StrongIds : StrongConstruct(i)
    \/ \E i \in StrongIds, j \in StrongIds : StrongCopyConstruct(i, j)
    \/ \E i \in StrongIds, j \in StrongIds : StrongMoveConstruct(i, j)
    \/ \E i \in StrongIds, j \in StrongIds : StrongCopyAssign(i, j)
    \/ \E i \in StrongIds, j \in StrongIds : StrongMoveAssign(i, j)
    \/ \E i \in StrongIds : StrongEmplace(i)
    \/ \E i \in StrongIds : StrongClear(i)
    \/ \E i \in StrongIds : StrongDtor(i)

\* the strong_ptr objects that point to the Implementation ptr
owners(ptr) == {i \in StrongIds : sp.obj[i].alive /\ sp.obj[i].m_ptr = ptr}

\* C28: whatever operations were made, no operation touched a deleted payload;
\* a payload is deleted at most once, and it is deleted exactly when no
\* strong_ptr points to it any more; until then its reference count is the
\* number of strong_ptr objects pointing to it.
C28_CountedAndDeletedOnce ==
    /\ ~sp.ub
    /\ \A ptr \in 1..Len(sp.heap) :
          /\ sp.heap[ptr].deleted <= 1
          /\ sp.heap[ptr].deleted = 1 <=> owners(ptr) = {}
          /\ sp.heap[ptr].deleted = 0 => sp.heap[ptr].m_rc = Cardinality(owners(ptr))

\* what holds instead: until a payload is deleted its reference count is one
\* less than the number of strong_ptr objects pointing to it
C28_CountIsOneShort ==
    \A ptr \in 1..Len(sp.heap) :
        sp.heap[ptr].deleted = 0 => sp.heap[ptr].m_rc = Cardinality(owners(ptr)) - 1

\* a payload was deleted while a strong_ptr still points to it
C28_WitnessDeletedEarly ==
    \E ptr \in 1..Len(sp.heap) : sp.heap[ptr].deleted = 1 /\ owners(ptr) # {}

\* a payload that no strong_ptr points to any more was not deleted
C28_WitnessLeak ==
    \E ptr \in 1..Len(sp.heap) : sp.heap[ptr].deleted = 0 /\ owners(ptr) = {}

(***************************************************************************)
(* condition_variable<std::string>: wait against modify                    *)
(*                                                                         *)
(* The waiters call s.wait(cond, ready) with cond = (value == "set"); the  *)
(* thread "m" calls s.modify(f, n) once, with f storing "set" and          *)
(* returning it. Nothing else writes the value, so cond keeps holding once *)
(* f has run. mcv is the condition_variable: the holder of m_mutex,        *)
(* m_value, the threads blocked inside m_cv.wait(l), the notification type *)
(* handed to modify, and the threads that take part. mth[t] is thread t's  *)
(* position, whether modify's notification unblocked it, and whether its   *)
(* ready functor has run.                                                  *)
(***************************************************************************)
Waiters == {"w1", "w2"}
MThreads == Waiters \cup {"m"}
\* the values of m_value: the one the waiters wait for, which f stores, and another
MValues == {"unset", "set"}

McvStart(n, v, ws) ==
    [m_mutex |-> Unlocked, m_value |-> v, waiting |-> {}, n |-> n, waiters |-> ws]
MthStart(ws) ==
    [t \in MThreads |-> [pc |-> IF t \in ws \cup {"m"} THEN "lock" ELSE "done",
                         notified |-> FALSE, ran_ready |-> FALSE]]
MGoto(t, pc) == [mth EXCEPT ![t].pc = pc]

\* the wait_functor: cond(m_value)
wait_functor(v) == v = "set"
\* f(m_value): what the functor of modify leaves in the value
modify_functor(v) == "set"

\* modify: std::unique_lock l { m_mutex }, inside the lambda
ModifyLock ==
    /\ mth["m"].pc = "lock"
    /\ lockable(mcv.m_mutex)
    /\ mcv' = [mcv EXCEPT !.m_mutex = "m"]
    /\ mth' = MGoto("m", "f")
    /\ UNCHANGED notModify

\* modify: ret_val = f(m_value), and l's destructor as the lambda returns
ModifyValue ==
    /\ mth["m"].pc = "f"
    /\ mcv' = [mcv EXCEPT !.m_value = modify_functor(@), !.m_mutex = Unlocked]
    /\ mth' = MGoto("m", "notify")
    /\ UNCHANGED notModify

\* modify: notify(n), and return ret_val
ModifyNotify ==
    /\ mth["m"].pc = "notify"
    /\ \E woken \in wakes(mcv.n, mcv.waiting) :
        /\ mcv' = [mcv EXCEPT !.waiting = @ \ woken]
        /\ mth' = [u \in MThreads |->
                      IF u = "m" THEN [mth[u] EXCEPT !.pc = "done"]
                      ELSE IF u \in woken THEN [mth[u] EXCEPT !.pc = "relock", !.notified = TRUE]
                      ELSE mth[u]]
    /\ UNCHANGED notModify

\* wait: std::unique_lock l { m_mutex };
\* and m_cv.wait(l) taking the mutex again once it is unblocked
MWaitLock(t) ==
    /\ t \in Waiters /\ mth[t].pc \in {"lock", "relock"}
    /\ lockable(mcv.m_mutex)
    /\ mcv' = [mcv EXCEPT !.m_mutex = t]
    /\ mth' = MGoto(t, "pred")
    /\ UNCHANGED notModify

\* m_cv.wait(l, pred): while (!pred()) ...
MWaitPred(t) ==
    /\ t \in Waiters /\ mth[t].pc = "pred"
    /\ mth' = MGoto(t, IF wait_functor(mcv.m_value) THEN "ready" ELSE "block")
    /\ UNCHANGED <<mcv, notModify>>

\* m_cv.wait(l): releases the mutex and blocks, atomically
MWaitBlock(t) ==
    /\ t \in Waiters /\ mth[t].pc = "block"
    /\ mcv' = [mcv EXCEPT !.m_mutex = Unlocked, !.waiting = @ \cup {t}]
    /\ mth' = MGoto(t, "blocked")
    /\ UNCHANGED notModify

\* m_cv.wait(l) unblocks without a notify, as std::condition_variable may
MSpuriousWake(t) ==
    /\ t \in Waiters /\ mth[t].pc = "blocked"
    /\ t \in mcv.waiting
    /\ mcv' = [mcv EXCEPT !.waiting = @ \ {t}]
    /\ mth' = MGoto(t, "relock")
    /\ UNCHANGED notModify

\* return ready_functor(m_value), and l's destructor
MWaitReady(t) ==
    /\ t \in Waiters /\ mth[t].pc = "ready"
    /\ mcv' = [mcv EXCEPT !.m_mutex = Unlocked]
    /\ mth' = [mth EXCEPT ![t].pc = "done", ![t].ran_ready = TRUE]
    /\ UNCHANGED notModify

\* the steps the running thread t takes by itself
MStep(t) ==
    \/ t = "m" /\ (ModifyLock \/ ModifyValue \/ ModifyNotify)
    \/ MWaitLock(t) \/ MWaitPred(t) \/ MWaitBlock(t) \/ MWaitReady(t)

\* one or two waiters, either notification type, cond holding already or not
InitModify ==
    \E n \in NotificationTypes, v \in MValues, ws \in (SUBSET Waiters) \ {{}} :
        /\ mcv = McvStart(n, v, ws)
        /\ mth = MthStart(ws)

IdleModify ==
    /\ mcv = McvStart("NOTIFY_ALL", "unset", {"w1"})
    /\ mth = [t \in MThreads |-> [pc |-> "done", notified |-> FALSE, ran_ready |-> FALSE]]

NextModify ==
    \/ ModifyLock
    \/ ModifyValue
    \/ ModifyNotify
    \/ \E t \in Waiters : MWaitLock(t)
    \/ \E t \in Waiters : MWaitPred(t)
    \/ \E t \in Waiters : MWaitBlock(t)
    \/ \E t \in Waiters : MSpuriousWake(t)
    \/ \E t \in Waiters : MWaitReady(t)

\* every thread that can take a step eventually takes one, and a thread that
\* can take the mutex again and again eventually gets it
FairModify ==
    /\ \A t \in MThreads : WF_vars(MStep(t))
    /\ \A t \in Waiters : SF_vars(MWaitLock(t))
    /\ SF_vars(ModifyLock)

\* C29 as stated: whichever notification type modify is called with, every
\* waiter eventually runs its ready functor.
C29_EveryWaiterReady ==
    <>(\A t \in mcv.waiters : mth[t].ran_ready)

\* C29, amended: the guarded value is changed only by the thread that holds the
\* lock, and when modify is called with NOTIFY_ALL, or with NOTIFY_ONE while a
\* single thread waits, every waiter eventually runs its ready functor.
C29_NoLostWakeup ==
    /\ [][mcv'.m_value # mcv.m_value => mcv.m_mutex = "m"]_vars
    /\ (mcv.n = "NOTIFY_ALL" \/ Cardinality(mcv.waiters) = 1)
       => <>(\A t \in mcv.waiters : mth[t].ran_ready)

\* the one waiter blocked before the value was changed, modify's NOTIFY_ONE
\* unblocked it, and it has run its ready functor
C29_Witness ==
    /\ mcv.n = "NOTIFY_ONE" /\ mcv.waiters = {"w1"}
    /\ mth["w1"].notified /\ mth["w1"].ran_ready /\ mth["m"].pc = "done"

\* two waiters blocked before the value was changed, modify's NOTIFY_ALL
\* unblocked both, and both have run their ready functors
C29_WitnessAll ==
    /\ mcv.n = "NOTIFY_ALL" /\ mcv.waiters = Waiters
    /\ \A t \in Waiters : mth[t].notified /\ mth[t].ran_ready

\* two waiters were blocked when modify's NOTIFY_ONE unblocked one of them; that
\* one has run its ready functor and the other is blocked still
C29_WitnessOneOfTwo ==
    /\ mcv.n = "NOTIFY_ONE" /\ mcv.waiters = Waiters
    /\ mth["m"].pc = "done" /\ wait_functor(mcv.m_value)
    /\ \E t \in Waiters, u \in Waiters :
          /\ mth[t].notified /\ mth[t].ran_ready
          /\ mth[u].pc = "blocked" /\ u \in mcv.waiting /\ ~mth[u].notified

(***************************************************************************)
(* Specifications                                                          *)
(***************************************************************************)
IdleLater == IdleCompare /\ IdlePipe /\ IdleCollapse /\ IdleSection /\ IdleNotify /\ IdleCow /\ IdleFinally /\ IdleIter /\ IdleStrong /\ IdleModify

Init == InitOption /\ InitExt /\ IdleVariant /\ IdleJoin /\ IdleMap /\ IdleLater

SpecOption == Init /\ [][NextOption]_vars

InitSpecVariant == IdleOption /\ InitExt /\ InitVariant /\ IdleJoin /\ IdleMap /\ IdleLater

SpecVariant == InitSpecVariant /\ [][NextVariant]_vars

InitSpecJoin == IdleOption /\ InitExt /\ IdleVariant /\ InitJoin /\ IdleMap /\ IdleLater

SpecJoin == InitSpecJoin /\ [][NextJoin]_vars

InitSpecMap == IdleOption /\ InitExt /\ IdleVariant /\ IdleJoin /\ InitMap /\ IdleLater

SpecMap == InitSpecMap /\ [][NextMap]_vars

IdleKernel == IdleOption /\ InitExt /\ IdleVariant /\ IdleJoin /\ IdleMap

InitSpecCompare == IdleKernel /\ InitCompare /\ IdlePipe /\ IdleCollapse /\ IdleSection /\ IdleNotify /\ IdleCow /\ IdleFinally /\ IdleIter /\ IdleStrong /\ IdleModify

SpecCompare == InitSpecCompare /\ [][NextCompare]_vars

InitSpecPipe == IdleKernel /\ IdleCompare /\ InitPipe /\ IdleCollapse /\ IdleSection /\ IdleNotify /\ IdleCow /\ IdleFinally /\ IdleIter /\ IdleStrong /\ IdleModify

SpecPipe == InitSpecPipe /\ [][NextPipe]_vars

\* the program runs on: construction and the terminal's loop are sequential code
FairPipe == WF_vars(NextPipe)
FairSpecPipe == SpecPipe /\ FairPipe

InitSpecCollapse == IdleKernel /\ IdleCompare /\ IdlePipe /\ InitCollapse /\ IdleSection /\ IdleNotify /\ IdleCow /\ IdleFinally /\ IdleIter /\ IdleStrong /\ IdleModify

SpecCollapse == InitSpecCollapse /\ [][NextCollapse]_vars

InitSpecSection == IdleKernel /\ IdleCompare /\ IdlePipe /\ IdleCollapse /\ InitSection /\ IdleNotify /\ IdleCow /\ IdleFinally /\ IdleIter /\ IdleStrong /\ IdleModify

SpecSection == InitSpecSection /\ [][NextSection]_vars

InitSpecNotify == IdleKernel /\ IdleCompare /\ IdlePipe /\ IdleCollapse /\ IdleSection /\ InitNotify /\ IdleCow /\ IdleFinally /\ IdleIter /\ IdleStrong /\ IdleModify

SpecNotify == InitSpecNotify /\ [][NextNotify]_vars

FairSpecNotify == SpecNotify /\ FairNotify

InitSpecCow == IdleKernel /\ IdleCompare /\ IdlePipe /\ IdleCollapse /\ IdleSection /\ IdleNotify /\ InitCow /\ IdleFinally /\ IdleIter /\ IdleStrong /\ IdleModify

SpecCow == InitSpecCow /\ [][NextCow]_vars

InitSpecFinally == IdleKernel /\ IdleCompare /\ IdlePipe /\ IdleCollapse /\ IdleSection /\ IdleNotify /\ IdleCow /\ InitFinally /\ IdleIter /\ IdleStrong /\ IdleModify

SpecFinally == InitSpecFinally /\ [][NextFinally]_vars

InitSpecIter == IdleKernel /\ IdleCompare /\ IdlePipe /\ IdleCollapse /\ IdleSection /\ IdleNotify /\ IdleCow /\ IdleFinally /\ InitIter /\ IdleStrong /\ IdleModify

SpecIter == InitSpecIter /\ [][NextIter]_vars

InitSpecStrong == IdleKernel /\ IdleCompare /\ IdlePipe /\ IdleCollapse /\ IdleSection /\ IdleNotify /\ IdleCow /\ IdleFinally /\ IdleIter /\ InitStrong /\ IdleModify

SpecStrong == InitSpecStrong /\ [][NextStrong]_vars

InitSpecModify == IdleKernel /\ IdleCompare /\ IdlePipe /\ IdleCollapse /\ IdleSection /\ IdleNotify /\ IdleCow /\ IdleFinally /\ IdleIter /\ IdleStrong /\ InitModify

SpecModify == InitSpecModify /\ [][NextModify]_vars

FairSpecModify == SpecModify /\ FairModify

Spec == SpecOption
====
